---------------------------- MODULE Spec2Model ----------------------------
(***************************************************************************)
(* A model of the PNG -> JPG/WebP converter that keeps the Stable          *)
(* Diffusion generation text of every picture                              *)
(* (src/image_processor_and_converter.py).                                 *)
(*                                                                         *)
(* Text is modelled as Python models it: a str is a sequence of Unicode    *)
(* code points, a bytes object a sequence of numbers 0..255.  A literal    *)
(* of the source is written out as its code points, with the literal in    *)
(* the comment above it.                                                   *)
(***************************************************************************)
EXTENDS Integers, Sequences, FiniteSets, TLC

(***************************************************************************)
(* Literals of the source                                                  *)
(***************************************************************************)
\* 'masterpiece'
KW_MASTERPIECE == << 109, 97, 115, 116, 101, 114, 112, 105, 101, 99, 101 >>
\* 'score_'   (followed by \d in the pattern)
KW_SCORE == << 115, 99, 111, 114, 101, 95 >>
\* '1girl'
KW_1GIRL == << 49, 103, 105, 114, 108 >>
\* 'BREAK'
KW_BREAK == << 66, 82, 69, 65, 75 >>
\* 'Negative prompt:'
KW_NEGATIVE == << 78, 101, 103, 97, 116, 105, 118, 101, 32, 112, 114, 111, 109, 112, 116, 58 >>
\* 'Steps:'
KW_STEPS == << 83, 116, 101, 112, 115, 58 >>
\* 'Steps: '
VAL_STEPS == << 83, 116, 101, 112, 115, 58, 32 >>
\* ', Sampler: '
VAL_SAMPLER == << 44, 32, 83, 97, 109, 112, 108, 101, 114, 58, 32 >>
\* 'UNICODE'
UNICODE_TOKEN == << 85, 78, 73, 67, 79, 68, 69 >>
\* b'UNICODE\x00'   (piexif.helper.UserComment._UNICODE_PREFIX)
UNICODE_PREFIX == << 85, 78, 73, 67, 79, 68, 69, 0 >>
\* '没有扫描到生成信息'   (no generation info found)
NO_INFO == << 27809, 26377, 25195, 25551, 21040, 29983, 25104, 20449, 24687 >>
\* '未扫描到信息'   (nothing scanned)
NOT_SCANNED == << 26410, 25195, 25551, 21040, 20449, 24687 >>
\* '转换失败'   (conversion failed)
CONVERT_FAILED == << 36716, 25442, 22833, 36133 >>
\* '任务异常'   (task exception)
TASK_EXC_INFO == << 20219, 21153, 24322, 24120 >>
\* '转换失败 (任务异常)'
TASK_EXC_FAILED == << 36716, 25442, 22833, 36133, 32, 40, 20219, 21153, 24322, 24120, 41 >>
\* '是'   (yes)
YES == << 26159 >>
\* '否'   (no)
NO == << 21542 >>
\* '否 (转换失败)'
NO_CONVERT_FAILED == << 21542, 32, 40, 36716, 25442, 22833, 36133, 41 >>
\* '否 (任务异常)'
NO_TASK_EXC == << 21542, 32, 40, 20219, 21153, 24322, 24120, 41 >>
\* '核心词为空'   (core term empty)
CORE_EMPTY == << 26680, 24515, 35789, 20026, 31354 >>
\* '.png'
EXT_PNG == << 46, 112, 110, 103 >>
\* 'PNG转'   (the prefix of output_dir_base)
PNG_TO == << 80, 78, 71, 36716 >>
\* 'jpg'
FMT_JPG == << 106, 112, 103 >>
\* 'webp'
FMT_WEBP == << 119, 101, 98, 112 >>
\* '.'
DOT == << 46 >>
\* '.bf'
BF == << 46, 98, 102 >>

\* 'newest, 2025, toosaka_asagi, novel_illus..., missile228, '
STOP_WORD_1 == <<
    110, 101, 119, 101, 115, 116, 44, 32, 50, 48, 50, 53, 44, 32, 116, 111, 111, 115, 97, 107,
    97, 95, 97, 115, 97, 103, 105, 44, 32, 110, 111, 118, 101, 108, 95, 105, 108, 108, 117, 115,
    116, 114, 97, 116, 105, 111, 110, 44, 32, 116, 111, 114, 105, 110, 111, 95, 97, 113, 117,
    97, 44, 32, 105, 122, 117, 109, 105, 95, 116, 115, 117, 98, 97, 115, 117, 44, 32, 111, 121,
    117, 119, 97, 114, 105, 44, 32, 112, 111, 116, 116, 115, 110, 101, 115, 115, 44, 32, 121,
    117, 110, 115, 97, 110, 103, 44, 32, 104, 105, 116, 111, 95, 107, 111, 109, 111, 114, 117,
    44, 32, 97, 107, 101, 121, 97, 109, 97, 95, 107, 105, 116, 115, 117, 110, 101, 44, 32, 102,
    105, 45, 115, 97, 110, 44, 32, 114, 111, 117, 114, 111, 117, 95, 92, 40, 98, 101, 101, 110,
    92, 41, 44, 32, 103, 119, 101, 100, 97, 44, 32, 102, 117, 122, 105, 99, 104, 111, 99, 111,
    44, 32, 115, 104, 97, 110, 103, 117, 105, 101, 114, 44, 32, 97, 110, 109, 105, 44, 32, 109,
    105, 115, 115, 105, 108, 101, 50, 50, 56, 44, 32 >>

\* '2025, toosaka_asagi, novel_illustration,...i, pottsness, '
STOP_WORD_2 == <<
    50, 48, 50, 53, 44, 32, 116, 111, 111, 115, 97, 107, 97, 95, 97, 115, 97, 103, 105, 44, 32,
    110, 111, 118, 101, 108, 95, 105, 108, 108, 117, 115, 116, 114, 97, 116, 105, 111, 110, 44,
    32, 116, 111, 114, 105, 110, 111, 95, 97, 113, 117, 97, 44, 32, 105, 122, 117, 109, 105, 95,
    116, 115, 117, 98, 97, 115, 117, 44, 32, 111, 121, 117, 119, 97, 114, 105, 44, 32, 112, 111,
    116, 116, 115, 110, 101, 115, 115, 44, 32 >>

\* 'looking_at_viewer, curvy,seductive_smile...ly suggestive,'
STOP_WORD_3 == <<
    108, 111, 111, 107, 105, 110, 103, 95, 97, 116, 95, 118, 105, 101, 119, 101, 114, 44, 32,
    99, 117, 114, 118, 121, 44, 115, 101, 100, 117, 99, 116, 105, 118, 101, 95, 115, 109, 105,
    108, 101, 44, 103, 108, 97, 109, 111, 114, 44, 109, 97, 107, 101, 117, 112, 44, 98, 108,
    117, 115, 104, 44, 44, 32, 108, 97, 99, 101, 44, 114, 105, 98, 98, 111, 110, 44, 106, 101,
    119, 101, 108, 114, 121, 44, 110, 101, 99, 107, 108, 97, 99, 101, 44, 100, 114, 111, 112,
    32, 101, 97, 114, 114, 105, 110, 103, 115, 44, 112, 101, 110, 100, 97, 110, 116, 44, 44, 32,
    115, 101, 120, 117, 97, 108, 108, 121, 32, 115, 117, 103, 103, 101, 115, 116, 105, 118, 101,
    44 >>

\* 'sexy and cute,'
STOP_WORD_4 == << 115, 101, 120, 121, 32, 97, 110, 100, 32, 99, 117, 116, 101, 44 >>

\* 'dynamic pose, sexy pose,'
STOP_WORD_5 == <<
    100, 121, 110, 97, 109, 105, 99, 32, 112, 111, 115, 101, 44, 32, 115, 101, 120, 121, 32,
    112, 111, 115, 101, 44 >>

\* 'dynamic angle,, dutch_angle, tinker bell...epth of field,'
STOP_WORD_6 == <<
    100, 121, 110, 97, 109, 105, 99, 32, 97, 110, 103, 108, 101, 44, 44, 32, 100, 117, 116, 99,
    104, 95, 97, 110, 103, 108, 101, 44, 32, 116, 105, 110, 107, 101, 114, 32, 98, 101, 108,
    108, 32, 92, 40, 112, 105, 120, 105, 118, 32, 49, 48, 57, 53, 54, 48, 49, 53, 92, 41, 44,
    44, 32, 109, 97, 115, 116, 101, 114, 112, 105, 101, 99, 101, 44, 32, 98, 101, 115, 116, 32,
    113, 117, 97, 108, 105, 116, 121, 44, 32, 97, 109, 97, 122, 105, 110, 103, 32, 113, 117, 97,
    108, 105, 116, 121, 44, 32, 118, 101, 114, 121, 32, 97, 119, 97, 44, 97, 98, 115, 117, 114,
    100, 114, 101, 115, 44, 110, 101, 119, 101, 115, 116, 44, 118, 101, 114, 121, 32, 97, 101,
    115, 116, 104, 101, 116, 105, 99, 44, 100, 101, 112, 116, 104, 32, 111, 102, 32, 102, 105,
    101, 108, 100, 44 >>

\* 'very awa,absurdres,newest,very aesthetic,depth of field,'
STOP_WORD_7 == <<
    118, 101, 114, 121, 32, 97, 119, 97, 44, 97, 98, 115, 117, 114, 100, 114, 101, 115, 44, 110,
    101, 119, 101, 115, 116, 44, 118, 101, 114, 121, 32, 97, 101, 115, 116, 104, 101, 116, 105,
    99, 44, 100, 101, 112, 116, 104, 32, 111, 102, 32, 102, 105, 101, 108, 100, 44 >>

\* 'Model: '
KW_MODEL == << 77, 111, 100, 101, 108, 58, 32 >>

\* '未找到模型'
MODEL_NOT_FOUND == << 26410, 25214, 21040, 27169, 22411 >>

\* 'Steps: 20, Sampler: Euler a'
PART_STEPS_20 == <<
    83, 116, 101, 112, 115, 58, 32, 50, 48, 44, 32, 83, 97, 109, 112, 108, 101, 114, 58, 32, 69,
    117, 108, 101, 114, 32, 97 >>

\* 'Negative prompt: X'
PART_NEGATIVE_X == <<
    78, 101, 103, 97, 116, 105, 118, 101, 32, 112, 114, 111, 109, 112, 116, 58, 32, 88 >>

\* 'masterpiece, '
PART_MASTERPIECE == << 109, 97, 115, 116, 101, 114, 112, 105, 101, 99, 101, 44, 32 >>

\* ', Model: foo'
PART_MODEL == << 44, 32, 77, 111, 100, 101, 108, 58, 32, 102, 111, 111 >>

\* 'Steps: 10, Sampler: DDIM'
PART_STEPS_10 == <<
    83, 116, 101, 112, 115, 58, 32, 49, 48, 44, 32, 83, 97, 109, 112, 108, 101, 114, 58, 32, 68,
    68, 73, 77 >>

\* 'Steps: 1, Sampler:  \x01'
PART_SAMPLER_BLANK == <<
    83, 116, 101, 112, 115, 58, 32, 49, 44, 32, 83, 97, 109, 112, 108, 101, 114, 58, 32, 32, 1 >>

\* 'ab'
PART_AB == << 97, 98 >>

\* 'X'
VAL_X == << 88 >>

\* 'Steps: 20'
VAL_STEPS_20 == << 83, 116, 101, 112, 115, 58, 32, 50, 48 >>

\* 'sexy and'
PIECE_SEXY_AND == << 115, 101, 120, 121, 32, 97, 110, 100 >>

\* ' cute,'
PIECE_CUTE == << 32, 99, 117, 116, 101, 44 >>

\* 'SEXY and Cute,'
PIECE_MIXED_CASE == << 83, 69, 88, 89, 32, 97, 110, 100, 32, 67, 117, 116, 101, 44 >>

\* 'dynamic pose,'
PIECE_DYNAMIC_POSE == << 100, 121, 110, 97, 109, 105, 99, 32, 112, 111, 115, 101, 44 >>

\* ' sexy pose,'
PIECE_SEXY_POSE == << 32, 115, 101, 120, 121, 32, 112, 111, 115, 101, 44 >>

\* Python's None, and a regular expression search that found nothing.
None == << -1 >>

(***************************************************************************)
(* str primitives                                                          *)
(***************************************************************************)
SetMin(S) == CHOOSE x \in S : \A y \in S : x <= y

\* str.isspace() of one character, which is also \s of re for str.
IsSpace(c) ==
    \/ c = 32
    \/ c \in 9..13
    \/ c \in 28..31
    \/ c \in {133, 160, 5760, 8232, 8233, 8239, 8287, 12288}
    \/ c \in 8192..8202

\* \d of a str pattern: a decimal digit (ASCII, and the full-width digits).
IsDigit(c) == c \in 48..57 \/ c \in 65296..65305

\* \w of a str pattern: [a-zA-Z0-9_] and every other alphanumeric character
\* (of those, the Latin-1 letters and the CJK ideographs are modelled).
IsWord(c) ==
    \/ c \in 48..57 \/ c \in 65..90 \/ c \in 97..122 \/ c = 95
    \/ c \in 192..214 \/ c \in 216..246 \/ c \in 248..255
    \/ c \in 19968..40959 \/ c \in 65296..65305

\* str.lower() of one character (ASCII and Latin-1 capitals).
LowerChar(c) ==
    IF c \in 65..90 \/ c \in 192..214 \/ c \in 216..222 THEN c + 32 ELSE c

\* str.upper() of one character (ASCII small letters).
UpperChar(c) == IF c \in 97..122 THEN c - 32 ELSE c

Lower(s) == [i \in 1..Len(s) |-> LowerChar(s[i])]

Upper(s) == [i \in 1..Len(s) |-> UpperChar(s[i])]

\* s[i-1:], for a position i of 1..Len(s)+1.
From(s, i) == SubSeq(s, i, Len(s))

\* str.lstrip()
LStrip(s) ==
    IF \A i \in 1..Len(s) : IsSpace(s[i]) THEN << >>
    ELSE From(s, CHOOSE i \in 1..Len(s) :
                     ~IsSpace(s[i]) /\ \A j \in 1..(i - 1) : IsSpace(s[j]))

\* str.rstrip()
RStrip(s) ==
    IF \A i \in 1..Len(s) : IsSpace(s[i]) THEN << >>
    ELSE SubSeq(s, 1, Len(s) - CHOOSE k \in 0..(Len(s) - 1) :
                                   /\ ~IsSpace(s[Len(s) - k])
                                   /\ \A j \in 0..(k - 1) : IsSpace(s[Len(s) - j]))

\* str.strip()
Strip(s) == LStrip(RStrip(s))

\* s.startswith(pat, i-1): pat occurs in s at position i.
MatchAt(s, pat, i) ==
    /\ i >= 1
    /\ i + Len(pat) - 1 <= Len(s)
    /\ \A k \in 1..Len(pat) : s[i + k - 1] = pat[k]

StartsWith(s, pat) == MatchAt(s, pat, 1)

EndsWith(s, pat) == MatchAt(s, pat, Len(s) - Len(pat) + 1)

\* pat in s, re.search(re.escape(pat), s)
Contains(s, pat) == \E i \in 1..(Len(s) - Len(pat) + 1) : MatchAt(s, pat, i)

\* s.find(pat) + 1: the first position of pat in s, 0 when there is none.
Find(s, pat) ==
    LET at == {i \in 1..(Len(s) - Len(pat) + 1) : MatchAt(s, pat, i)}
    IN  IF at = {} THEN 0 ELSE SetMin(at)

\* s.replace(a, b) for single characters a and b.
ReplaceChar(s, a, b) == [i \in 1..Len(s) |-> IF s[i] = a THEN b ELSE s[i]]

\* raw.replace('\n', ' ').replace('\r', ' ').strip(): the flattening rule of the
\* extractor (line 220) and of the consistency check (lines 530, 551).
Flatten(s) == Strip(ReplaceChar(ReplaceChar(s, 10, 32), 13, 32))


(***************************************************************************)
(* Codecs: what is written into the EXIF tags and what is read back        *)
(***************************************************************************)
\* One character of str.encode('utf-8', errors='ignore'): a lone surrogate is dropped.
UTF8Char(c) ==
    IF c < 128 THEN << c >>
    ELSE IF c < 2048 THEN << 192 + (c \div 64), 128 + (c % 64) >>
    ELSE IF c \in 55296..57343 THEN << >>
    ELSE IF c < 65536
         THEN << 224 + (c \div 4096), 128 + ((c \div 64) % 64), 128 + (c % 64) >>
         ELSE << 240 + (c \div 262144), 128 + ((c \div 4096) % 64),
                 128 + ((c \div 64) % 64), 128 + (c % 64) >>

RECURSIVE UTF8Encode(_)
\* raw_metadata.encode('utf-8', errors='ignore')
UTF8Encode(s) == IF s = << >> THEN << >> ELSE UTF8Char(Head(s)) \o UTF8Encode(Tail(s))

IsCont(b) == b \in 128..191

RECURSIVE UTF8DecodeIgnore(_)
\* value.decode('utf-8', errors='ignore'): a byte that starts no well-formed
\* sequence is skipped.
UTF8DecodeIgnore(b) ==
    IF b = << >> THEN << >>
    ELSE LET n == Len(b)
             b1 == b[1]
         IN  IF b1 < 128 THEN << b1 >> \o UTF8DecodeIgnore(Tail(b))
             ELSE IF b1 \in 194..223 /\ n >= 2 /\ IsCont(b[2])
                  THEN << (b1 - 192) * 64 + (b[2] - 128) >> \o UTF8DecodeIgnore(From(b, 3))
             ELSE IF /\ b1 \in 224..239 /\ n >= 3 /\ IsCont(b[2]) /\ IsCont(b[3])
                     /\ (b1 = 224 => b[2] >= 160) /\ (b1 = 237 => b[2] <= 159)
                  THEN << (b1 - 224) * 4096 + (b[2] - 128) * 64 + (b[3] - 128) >>
                       \o UTF8DecodeIgnore(From(b, 4))
             ELSE IF /\ b1 \in 240..244 /\ n >= 4
                     /\ IsCont(b[2]) /\ IsCont(b[3]) /\ IsCont(b[4])
                     /\ (b1 = 240 => b[2] >= 144) /\ (b1 = 244 => b[2] <= 143)
                  THEN << (b1 - 240) * 262144 + (b[2] - 128) * 4096
                          + (b[3] - 128) * 64 + (b[4] - 128) >>
                       \o UTF8DecodeIgnore(From(b, 5))
             ELSE UTF8DecodeIgnore(Tail(b))

\* bytes.decode('latin-1'): every byte is the character with its number.
Latin1Decode(b) == [i \in 1..Len(b) |-> b[i]]

\* One character of str.encode('utf_16_be', errors='replace'), the encoding
\* piexif.helper.UserComment uses for "unicode": a lone surrogate becomes '?'.
UTF16BEChar(c) ==
    IF c \in 55296..57343 THEN << 0, 63 >>
    ELSE IF c < 65536 THEN << c \div 256, c % 256 >>
    ELSE LET v == c - 65536
             hi == 55296 + (v \div 1024)
             lo == 56320 + (v % 1024)
         IN  << hi \div 256, hi % 256, lo \div 256, lo % 256 >>

RECURSIVE UTF16BEEncode(_)
UTF16BEEncode(s) ==
    IF s = << >> THEN << >> ELSE UTF16BEChar(Head(s)) \o UTF16BEEncode(Tail(s))

RECURSIVE UTF16BEDecode(_)
\* bytes.decode('utf_16_be', errors='replace'): an odd last byte, a surrogate
\* without its partner, and a high surrogate with what is left of the data
\* when that is less than a code unit, become U+FFFD.
UTF16BEDecode(b) ==
    IF b = << >> THEN << >>
    ELSE IF Len(b) = 1 THEN << 65533 >>
    ELSE LET u == b[1] * 256 + b[2]
         IN  IF u \in 55296..56319
             THEN IF Len(b) < 4 THEN << 65533 >>
                  ELSE IF (b[3] * 256 + b[4]) \in 56320..57343
                  THEN << 65536 + (u - 55296) * 1024 + (b[3] * 256 + b[4] - 56320) >>
                       \o UTF16BEDecode(From(b, 5))
                  ELSE << 65533 >> \o UTF16BEDecode(From(b, 3))
             ELSE IF u \in 56320..57343 THEN << 65533 >> \o UTF16BEDecode(From(b, 3))
             ELSE << u >> \o UTF16BEDecode(From(b, 3))

\* piexif.helper.UserComment.dump(raw_metadata, encoding="unicode")
UserCommentDump(s) == UNICODE_PREFIX \o UTF16BEEncode(s)

\* piexif.helper.UserComment.load(value): None stands for the ValueError it
\* raises on data shorter than the prefix or with a prefix it does not decode
\* (of its three encodings, "unicode" is the one modelled).
UserCommentLoad(b) ==
    IF Len(b) < 8 \/ SubSeq(b, 1, 8) # UNICODE_PREFIX THEN None
    ELSE UTF16BEDecode(From(b, 9))

\* The two tags a file of this program carries, in the order and with the values
\* img._getexif() gives them: ImageDescription (0th IFD) first, an ASCII tag that
\* Pillow hands over as a str decoded as Latin-1, then UserComment (Exif IFD), an
\* UNDEFINED tag handed over as bytes.  NoExif is a file written without EXIF.
EXIF_IMAGE_DESCRIPTION_TAG == 270

EXIF_USER_COMMENT_TAG == 37510

NoExif == << >>

\* generate_exif_bytes(raw_metadata) followed by img.save(..., exif=exif_bytes)
\* and, on reading, img._getexif().
ExifOf(raw_metadata) ==
    << [tag |-> EXIF_IMAGE_DESCRIPTION_TAG, isbytes |-> FALSE,
        value |-> Latin1Decode(UTF8Encode(raw_metadata))],
       [tag |-> EXIF_USER_COMMENT_TAG, isbytes |-> TRUE,
        value |-> UserCommentDump(raw_metadata)] >>

(***************************************************************************)
(* exif_metadata_debugger: the UserComment value read back                  *)
(***************************************************************************)
RECURSIVE UTF16LEDecode(_)
\* bytes.decode('utf-16le', errors='replace'): an odd last byte, a surrogate
\* without its partner, and a high surrogate with what is left of the data
\* when that is less than a code unit, become U+FFFD.
UTF16LEDecode(b) ==
    IF b = << >> THEN << >>
    ELSE IF Len(b) = 1 THEN << 65533 >>
    ELSE LET u == b[2] * 256 + b[1]
         IN  IF u \in 55296..56319
             THEN IF Len(b) < 4 THEN << 65533 >>
                  ELSE IF (b[4] * 256 + b[3]) \in 56320..57343
                  THEN << 65536 + (u - 55296) * 1024 + (b[4] * 256 + b[3] - 56320) >>
                       \o UTF16LEDecode(From(b, 5))
                  ELSE << 65533 >> \o UTF16LEDecode(From(b, 3))
             ELSE IF u \in 56320..57343 THEN << 65533 >> \o UTF16LEDecode(From(b, 3))
             ELSE << u >> \o UTF16LEDecode(From(b, 3))

\* extract_sd_params_from_user_comment(raw_bytes)[1], cleaned_text (lines 33-61
\* of exif_metadata_debugger.py): the header UNICODE\0 cut off, the rest decoded
\* as UTF-16LE, the NUL characters removed, the text stripped.
ExtractSdParamsFromUserComment(raw_bytes) ==
    LET data_bytes == IF StartsWith(raw_bytes, UNICODE_PREFIX)
                      THEN From(raw_bytes, Len(UNICODE_PREFIX) + 1)
                      ELSE raw_bytes
        raw_decoded_text == UTF16LEDecode(data_bytes)
    IN  Strip(SelectSeq(raw_decoded_text, LAMBDA c : c # 0))

\* The value of the UserComment tag among the tags of a file.
UserCommentValue(exif) ==
    LET at == {k \in 1..Len(exif) : exif[k].tag = EXIF_USER_COMMENT_TAG}
    IN  exif[SetMin(at)].value


\* bytes.decode('utf-16le', errors='replace') of the bytes after the header, the
\* first value extract_sd_params_from_user_comment returns (raw_decoded_text).
RawDecodedText(raw_bytes) ==
    UTF16LEDecode(IF StartsWith(raw_bytes, UNICODE_PREFIX)
                  THEN From(raw_bytes, Len(UNICODE_PREFIX) + 1)
                  ELSE raw_bytes)

\* The second byte b2 may follow the first byte b1 of a UTF-8 sequence of three
\* or four bytes.
IsSecond(b1, b2) ==
    IF b1 = 224 THEN b2 \in 160..191
    ELSE IF b1 = 237 THEN b2 \in 128..159
    ELSE IF b1 = 240 THEN b2 \in 144..191
    ELSE IF b1 = 244 THEN b2 \in 128..143
    ELSE IsCont(b2)

RECURSIVE UTF8DecodeReplace(_)
\* bytes.decode('utf-8', errors='replace'): every longest run of bytes that
\* starts a sequence and cannot go on becomes one U+FFFD.
UTF8DecodeReplace(b) ==
    IF b = << >> THEN << >>
    ELSE LET n == Len(b)
             b1 == b[1]
         IN  IF b1 < 128 THEN << b1 >> \o UTF8DecodeReplace(Tail(b))
             ELSE IF b1 \in 194..223
                  THEN IF n >= 2 /\ IsCont(b[2])
                       THEN << (b1 - 192) * 64 + (b[2] - 128) >> \o UTF8DecodeReplace(From(b, 3))
                       ELSE << 65533 >> \o UTF8DecodeReplace(Tail(b))
             ELSE IF b1 \in 224..239
                  THEN IF ~(n >= 2 /\ IsSecond(b1, b[2]))
                       THEN << 65533 >> \o UTF8DecodeReplace(Tail(b))
                       ELSE IF ~(n >= 3 /\ IsCont(b[3]))
                       THEN << 65533 >> \o UTF8DecodeReplace(From(b, 3))
                       ELSE << (b1 - 224) * 4096 + (b[2] - 128) * 64 + (b[3] - 128) >>
                            \o UTF8DecodeReplace(From(b, 4))
             ELSE IF b1 \in 240..244
                  THEN IF ~(n >= 2 /\ IsSecond(b1, b[2]))
                       THEN << 65533 >> \o UTF8DecodeReplace(Tail(b))
                       ELSE IF ~(n >= 3 /\ IsCont(b[3]))
                       THEN << 65533 >> \o UTF8DecodeReplace(From(b, 3))
                       ELSE IF ~(n >= 4 /\ IsCont(b[4]))
                       THEN << 65533 >> \o UTF8DecodeReplace(From(b, 4))
                       ELSE << (b1 - 240) * 262144 + (b[2] - 128) * 4096
                               + (b[3] - 128) * 64 + (b[4] - 128) >>
                            \o UTF8DecodeReplace(From(b, 5))
             ELSE << 65533 >> \o UTF8DecodeReplace(Tail(b))

\* The two-byte sequences of the gbk codec that the bytes 0x53, 0x80, 0xD0,
\* 0xD8 and 0xE4 make, with the character of each.
GBKPairs ==
    (<< 208, 83 >> :> 34872) @@
    (<< 208, 128 >> :> 34939) @@
    (<< 208, 208 >> :> 34892) @@
    (<< 208, 216 >> :> 33016) @@
    (<< 208, 228 >> :> 34966) @@
    (<< 216, 83 >> :> 35920) @@
    (<< 216, 128 >> :> 35976) @@
    (<< 216, 208 >> :> 21286) @@
    (<< 216, 216 >> :> 21006) @@
    (<< 216, 228 >> :> 21121) @@
    (<< 228, 83 >> :> 37564) @@
    (<< 228, 128 >> :> 37609) @@
    (<< 228, 208 >> :> 28267) @@
    (<< 228, 216 >> :> 28228) @@
    (<< 228, 228 >> :> 28375)

RECURSIVE GBKDecode(_)
\* bytes.decode('gbk', errors='replace'): a byte below 0x80 is its ASCII
\* character, a first byte with its second byte the character of the pair, and
\* a byte that is neither becomes U+FFFD.
GBKDecode(b) ==
    IF b = << >> THEN << >>
    ELSE IF b[1] < 128 THEN << b[1] >> \o GBKDecode(Tail(b))
    ELSE IF Len(b) >= 2 /\ << b[1], b[2] >> \in DOMAIN GBKPairs
         THEN << GBKPairs[<< b[1], b[2] >>] >> \o GBKDecode(From(b, 3))
         ELSE << 65533 >> \o GBKDecode(Tail(b))

\* A decode that hands over only the candidate of the header it finds.
DecodeExifBytesStandardOnly(raw_bytes) ==
    IF StartsWith(raw_bytes, UNICODE_PREFIX)
    THEN ("EXIF_STANDARD (UTF-16LE)" :> RawDecodedText(raw_bytes))
    ELSE ("UTF-8" :> UTF8DecodeReplace(raw_bytes))
         @@ ("Latin-1" :> Latin1Decode(raw_bytes))
         @@ ("GBK (Chinese)" :> GBKDecode(raw_bytes))

\* decode_exif_bytes(tag_name, raw_bytes) (lines 65-117 of
\* exif_metadata_debugger.py): decoding_results, the candidate of each encoding
\* under its key.
DecodeExifBytes(raw_bytes) ==
    (IF StartsWith(raw_bytes, UNICODE_PREFIX)
     THEN ("EXIF_STANDARD (UTF-16LE)" :> RawDecodedText(raw_bytes))
     ELSE ("UTF-16LE (Generic)" :> UTF16LEDecode(raw_bytes)))
        @@ ("UTF-8" :> UTF8DecodeReplace(raw_bytes))
        @@ ("Latin-1" :> Latin1Decode(raw_bytes))
        @@ ("GBK (Chinese)" :> GBKDecode(raw_bytes))


(***************************************************************************)
(* process_single_image: the text read from a file and its generation block *)
(***************************************************************************)
\* if raw_metadata_string: raw_metadata_string = raw_metadata_string.strip()
StripIfAny(s) == IF s = << >> THEN s ELSE Strip(s)

\* The body of the loop over the tags for one bytes value (lines 159-186):
\* [raw |-> the new raw_metadata_string, brk |-> the loop was left at line 172].
DecodeBytesTag(tag, value) ==
    LET loaded == UserCommentLoad(value)
        utf8 == UTF8DecodeIgnore(value)
        decoded == IF Contains(utf8, KW_STEPS) THEN utf8 ELSE Latin1Decode(value)
    IN  IF tag = EXIF_USER_COMMENT_TAG /\ loaded # None
        THEN [raw |-> StripIfAny(loaded), brk |-> TRUE]
        ELSE [raw |-> StripIfAny(decoded), brk |-> FALSE]

RECURSIVE ScanTags(_, _)
\* for tag, value in exif_data.items() (lines 156-200): raw_metadata_string
\* after the loop, entered with raw_metadata_string = raw.
ScanTags(tags, raw) ==
    IF tags = << >> THEN raw
    ELSE LET t == Head(tags)
         IN  IF t.tag \notin {EXIF_USER_COMMENT_TAG, EXIF_IMAGE_DESCRIPTION_TAG}
             THEN ScanTags(Tail(tags), raw)
             ELSE LET d == IF t.isbytes THEN DecodeBytesTag(t.tag, t.value)
                                        ELSE [raw |-> t.value, brk |-> FALSE]
                  IN  IF d.brk \/ (d.raw # << >> /\ Contains(d.raw, KW_STEPS))
                      THEN d.raw
                      ELSE ScanTags(Tail(tags), d.raw)

\* Stage 1 for a JPEG or WebP file with the EXIF tags exif: raw_metadata_string.
RawMetadataString(exif) == ScanTags(exif, << >>)

\* ILLEGAL_CHARACTERS_RE of openpyxl: [\000-\010]|[\013-\014]|[\016-\037]
IsIllegal(c) == c \in 0..8 \/ c \in 11..12 \/ c \in 14..31

\* Lines 205-210: the illegal characters removed, a leading "UNICODE" cut off.
CleanedString(raw) ==
    LET c == SelectSeq(raw, LAMBDA x : ~IsIllegal(x))
    IN  IF StartsWith(c, UNICODE_TOKEN) THEN LStrip(From(c, Len(UNICODE_TOKEN) + 1)) ELSE c

\* One of the alternatives masterpiece|score_\d|1girl|BREAK|Negative prompt:|Steps:
\* occurs in s.
HasAnchor(s) ==
    \/ Contains(s, KW_MASTERPIECE)
    \/ \E i \in 1..Len(s) :
          MatchAt(s, KW_SCORE, i) /\ i + Len(KW_SCORE) <= Len(s) /\ IsDigit(s[i + Len(KW_SCORE)])
    \/ Contains(s, KW_1GIRL)
    \/ Contains(s, KW_BREAK)
    \/ Contains(s, KW_NEGATIVE)
    \/ Contains(s, KW_STEPS)

\* sd_full_info_pattern.search(s).group(0), None without a match.  The pattern
\*   .*?(?:masterpiece|...|Steps:).*?(?:Version:.*?|Module:.*?|)$   with DOTALL
\* is tried from the start of s first, where its leading .*? reaches any anchor;
\* its tail runs to the first place $ matches: before a line feed that ends s,
\* else the end of s.
SdFullInfoSearch(s) ==
    IF ~HasAnchor(s) THEN None
    ELSE SubSeq(s, 1, IF s[Len(s)] = 10 THEN Len(s) - 1 ELSE Len(s))

\* The end of the run of digits of e that starts at position j (j when none).
DigitsEnd(e, j) == SetMin({p \in j..(Len(e) + 1) : p = Len(e) + 1 \/ ~IsDigit(e[p])})

\* sd_validation_pattern.search(e): 'Steps: \d+, Sampler: [\w\s]+' occurs in e.
SdValidationSearch(e) ==
    \E i \in 1..Len(e) :
        /\ MatchAt(e, VAL_STEPS, i)
        /\ LET j == i + Len(VAL_STEPS)
               k == DigitsEnd(e, j)
               w == k + Len(VAL_SAMPLER)
           IN  /\ k > j
               /\ MatchAt(e, VAL_SAMPLER, k)
               /\ w <= Len(e)
               /\ (IsWord(e[w]) \/ IsSpace(e[w]))

\* extracted_text (line 216) of a raw_metadata_string, None without a match.
ExtractedText(raw) ==
    LET m == SdFullInfoSearch(CleanedString(raw))
    IN  IF m = None THEN None ELSE Strip(m)

\* The block passed the strict validation (lines 203, 215, 218).
IsValidSdInfo(raw) ==
    LET extracted_text == ExtractedText(raw)
    IN  /\ raw # << >>
        /\ extracted_text # None
        /\ SdValidationSearch(extracted_text)

\* sd_info: the block with its line breaks, or the sentinel.
SdInfo(raw) == IF IsValidSdInfo(raw) THEN ExtractedText(raw) ELSE NO_INFO

\* sd_info_no_newlines: the flattened block, or the sentinel.
SdInfoNoNewlines(raw) ==
    LET extracted_text == ExtractedText(raw)
    IN  IF raw # << >> /\ extracted_text # None /\ SdValidationSearch(extracted_text)
        THEN Flatten(extracted_text)
        ELSE NO_INFO


(***************************************************************************)
(* The core terms of the positive prompt (lines 249-258)                   *)
(***************************************************************************)
\* POSITIVE_PROMPT_STOP_WORDS (lines 51-72), in the order of the list.
PositivePromptStopWords ==
    << STOP_WORD_1, STOP_WORD_2, STOP_WORD_3, STOP_WORD_4, STOP_WORD_5, STOP_WORD_6,
       STOP_WORD_7 >>

\* re.sub(re.escape(word), " ", s, flags=re.IGNORECASE): from the left, every
\* occurrence of word that does not overlap an earlier one becomes one space.
RECURSIVE SubIgnoreCase(_, _)

SubIgnoreCase(s, word) ==
    IF s = << >> THEN << >>
    ELSE IF MatchAt(Lower(s), Lower(word), 1)
    THEN << 32 >> \o SubIgnoreCase(From(s, Len(word) + 1), word)
    ELSE << Head(s) >> \o SubIgnoreCase(Tail(s), word)

\* The loop of lines 251-253 over the words from the k-th on: the text is put
\* between two spaces, then the word is taken out of it.
RECURSIVE RemoveStopWords(_, _)

RemoveStopWords(s, k) ==
    IF k > Len(PositivePromptStopWords) THEN s
    ELSE RemoveStopWords(
             SubIgnoreCase(<< 32 >> \o s \o << 32 >>, PositivePromptStopWords[k]), k + 1)

\* re.sub(r'\s+', ' ', s): every run of white space becomes one space.
RECURSIVE CollapseSpaces(_)

CollapseSpaces(s) ==
    IF s = << >> THEN << >>
    ELSE IF IsSpace(Head(s))
    THEN << 32 >> \o CollapseSpaces(LStrip(s))
    ELSE << Head(s) >> \o CollapseSpaces(Tail(s))

\* core_positive_prompt for positive_prompt (lines 250-258).
CorePositivePrompt(positive_prompt) ==
    LET core == CollapseSpaces(Strip(RemoveStopWords(positive_prompt, 1)))
    IN  IF core = << >> THEN CORE_EMPTY ELSE core


(***************************************************************************)
(* The fields of the generation block (lines 223-238, 260-262) and the     *)
(* record process_single_image returns (lines 113-124, 271-284)            *)
(***************************************************************************)
RECURSIVE Replace(_, _, _)
\* s.replace(old, new): from the left, every occurrence of old that does not
\* overlap an earlier one becomes new (old is not empty).
Replace(s, old, new) ==
    IF s = << >> THEN << >>
    ELSE IF MatchAt(s, old, 1) THEN new \o Replace(From(s, Len(old) + 1), old, new)
    ELSE << Head(s) >> \o Replace(Tail(s), old, new)

\* other_settings_match.start() + 1 of re.search(r'(Steps:.*)', s, re.DOTALL),
\* 0 without a match.
OtherSettingsStart(s) == Find(s, KW_STEPS)

\* other_settings after lines 224-229; it starts empty (line 119).
OtherSettings(s) ==
    IF OtherSettingsStart(s) = 0 THEN << >> ELSE Strip(From(s, OtherSettingsStart(s)))

\* temp_sd_info (lines 227, 229)
TempSdInfo(s) ==
    IF OtherSettingsStart(s) = 0 THEN Strip(s)
    ELSE Strip(SubSeq(s, 1, OtherSettingsStart(s) - 1))

\* The lookahead (?=\s*Steps:|$) holds in t before position e: white space and
\* "Steps:" follow, or t ends there, or only a last line feed follows.
NegativeEndsAt(t, e) ==
    \/ e = Len(t) + 1
    \/ e = Len(t) /\ t[e] = 10
    \/ \E k \in e..Len(t) :
          /\ \A x \in e..(k - 1) : IsSpace(t[x])
          /\ MatchAt(t, KW_STEPS, k)

\* negative_prompt_match of line 231 in t = temp_sd_info, as [start, end) of its
\* group 1: from the first "Negative prompt:" on, as short as the lookahead
\* allows; start = 0 without a match.
NegativePromptMatch(t) ==
    LET q == Find(t, KW_NEGATIVE)
    IN  IF q = 0 THEN [start |-> 0, end |-> 0]
        ELSE [start |-> q,
              end |-> SetMin({e \in (q + Len(KW_NEGATIVE))..(Len(t) + 1) : NegativeEndsAt(t, e)})]

\* negative_prompt (lines 118, 233)
NegativePrompt(s) ==
    LET t == TempSdInfo(s)
        m == NegativePromptMatch(t)
    IN  IF m.start = 0 THEN << >>
        ELSE Strip(Replace(SubSeq(t, m.start, m.end - 1), KW_NEGATIVE, << >>))

\* positive_prompt (lines 234, 236)
PositivePrompt(s) ==
    LET t == TempSdInfo(s)
        m == NegativePromptMatch(t)
    IN  IF m.start = 0 THEN Strip(t) ELSE Strip(SubSeq(t, 1, m.start - 1))

\* model_name (lines 120, 260-262): re.search(r'Model: ([^,]+)', other_settings),
\* group 1 stripped; the sentinel without a match.
ModelName(other_settings) ==
    LET at == {i \in 1..Len(other_settings) :
                  /\ MatchAt(other_settings, KW_MODEL, i)
                  /\ i + Len(KW_MODEL) <= Len(other_settings)
                  /\ other_settings[i + Len(KW_MODEL)] # 44}
    IN  IF at = {} THEN MODEL_NOT_FOUND
        ELSE LET b == SetMin(at) + Len(KW_MODEL)
                 e == SetMin({p \in b..(Len(other_settings) + 1) :
                                 p = Len(other_settings) + 1 \/ other_settings[p] = 44})
             IN  Strip(SubSeq(other_settings, b, e - 1))

\* The record with the values of lines 115-124: what process_single_image
\* returns when nothing was extracted, or an exception was caught (line 265)
\* before the block was validated.
InitialRecord ==
    [sd_info |-> NO_INFO, sd_info_no_newlines |-> NO_INFO,
     positive_prompt |-> << >>, negative_prompt |-> << >>, other_settings |-> << >>,
     positive_prompt_word_count |-> 0, model_name |-> MODEL_NOT_FOUND,
     core_positive_prompt |-> CORE_EMPTY]

\* A record whose fields are split from the text whether or not it validated.
GenerationRecordUnvalidated(raw_metadata_string) ==
    LET positive_prompt == PositivePrompt(Flatten(raw_metadata_string))
        other_settings == OtherSettings(Flatten(raw_metadata_string))
    IN  [sd_info |-> SdInfo(raw_metadata_string),
         sd_info_no_newlines |-> SdInfoNoNewlines(raw_metadata_string),
         positive_prompt |-> positive_prompt,
         negative_prompt |-> NegativePrompt(Flatten(raw_metadata_string)),
         other_settings |-> other_settings,
         positive_prompt_word_count |-> Len(positive_prompt),
         model_name |-> ModelName(other_settings),
         core_positive_prompt |-> CorePositivePrompt(positive_prompt)]

\* The record of lines 271-284 for a file whose stage 1 gave raw_metadata_string.
GenerationRecord(raw_metadata_string) ==
    IF ~IsValidSdInfo(raw_metadata_string)
    THEN [InitialRecord EXCEPT !.core_positive_prompt = CorePositivePrompt(<< >>),
                               !.model_name = ModelName(<< >>)]
    ELSE LET sd_info_no_newlines == SdInfoNoNewlines(raw_metadata_string)
             positive_prompt == PositivePrompt(sd_info_no_newlines)
             other_settings == OtherSettings(sd_info_no_newlines)
         IN  [sd_info |-> SdInfo(raw_metadata_string),
              sd_info_no_newlines |-> sd_info_no_newlines,
              positive_prompt |-> positive_prompt,
              negative_prompt |-> NegativePrompt(sd_info_no_newlines),
              other_settings |-> other_settings,
              positive_prompt_word_count |-> Len(positive_prompt),
              model_name |-> ModelName(other_settings),
              core_positive_prompt |-> CorePositivePrompt(positive_prompt)]


(***************************************************************************)
(* Paths.  A path is the sequence of its components, each a str; a source  *)
(* tree is a set of files below the root, named by their place in          *)
(* FileUniverse.                                                           *)
(***************************************************************************)
\* 'a.png'
NAME_A_PNG == << 97, 46, 112, 110, 103 >>
\* 'a.PNG'
NAME_A_UPPER_PNG == << 97, 46, 80, 78, 71 >>
\* 'sub'
NAME_SUB == << 115, 117, 98 >>
\* 'n.txt'
NAME_TXT == << 110, 46, 116, 120, 116 >>
\* 'd'
NAME_D == << 100 >>
\* 'in'
NAME_IN == << 105, 110 >>
\* 'png_conversion_report_'
REPORT_PREFIX == <<
    112, 110, 103, 95, 99, 111, 110, 118, 101, 114, 115, 105, 111, 110, 95, 114, 101, 112, 111,
    114, 116, 95 >>
\* '.xlsx'
EXT_XLSX == << 46, 120, 108, 115, 120 >>
\* 'image_processor_error.log'
ERROR_LOG == <<
    105, 109, 97, 103, 101, 95, 112, 114, 111, 99, 101, 115, 115, 111, 114, 95, 101, 114, 114,
    111, 114, 46, 108, 111, 103 >>
\* '.jpg'
EXT_JPG == << 46, 106, 112, 103 >>
\* '.jpeg'
EXT_JPEG == << 46, 106, 112, 101, 103 >>
\* '.gif'
EXT_GIF == << 46, 103, 105, 102 >>
\* '.bmp'
EXT_BMP == << 46, 98, 109, 112 >>
\* '.webp'
EXT_WEBP == << 46, 119, 101, 98, 112 >>

\* The absolute path of the folder the user names: /d/in.
RootFolder == << NAME_D, NAME_IN >>

\* The files a source tree is made of, by their path below the root, in the
\* order a directory listing gives them.
FileUniverse ==
    << << NAME_A_PNG >>,
       << NAME_A_UPPER_PNG >>,
       << NAME_SUB, NAME_A_PNG >>,
       << BF, NAME_A_PNG >>,
       << NAME_TXT >>,
       << NAME_SUB, BF, NAME_A_PNG >>,
       << BF, NAME_SUB, NAME_A_PNG >> >>

\* The largest number of files of a source tree.
MaxFiles == 2

\* The width of the worker pool: os.cpu_count() of a machine with two cores.
MAX_WORKERS == 2

\* os.path.dirname(p), os.path.basename(p)
DirName(p) == SubSeq(p, 1, Len(p) - 1)

BaseName(p) == p[Len(p)]

\* os.path.splitext(name)[0]: the name up to its last dot, unless only dots
\* come before that dot.
SplitExtRoot(name) ==
    LET dots == {i \in 1..Len(name) : name[i] = 46}
        last == -SetMin({-i : i \in dots})
    IN  IF dots = {} \/ (\A k \in 1..(last - 1) : name[k] = 46)
        THEN name
        ELSE SubSeq(name, 1, last - 1)

\* os.path.relpath(dir, root) for a dir at or below root: '.' for the root itself.
RelPath(dir, root) == IF dir = root THEN << DOT >> ELSE From(dir, Len(root) + 1)

\* The file a path names: its '.' components say nothing.
NormPath(p) == SelectSeq(p, LAMBDA c : c # DOT)

\* The ascending sequence of a finite set of numbers.
RECURSIVE SortedSeq(_)
SortedSeq(S) == IF S = {} THEN << >> ELSE << SetMin(S) >> \o SortedSeq(S \ {SetMin(S)})

\* The files of tree lying in directory d itself (d is relative to the root).
FilesIn(tree, d) == {i \in tree : DirName(FileUniverse[i]) = d}

\* The files of tree lying below d's subdirectory name.
Below(tree, d, name) ==
    {i \in tree : /\ Len(FileUniverse[i]) > Len(d) + 1
                  /\ SubSeq(FileUniverse[i], 1, Len(d) + 1) = d \o << name >>}

\* file.lower().endswith('.png')
IsPngName(name) == EndsWith(Lower(name), EXT_PNG)

\* dirs left as os.walk listed it.
KeptDirsAll(dirs) == dirs

\* dirs after dirs.remove('.bf') (lines 293-295): os.walk does not go down
\* into a name taken out of dirs.
KeptDirs(dirs) == SelectSeq(dirs, LAMBDA n : n # BF)

RECURSIVE Walk(_, _), WalkEach(_, _, _)
\* The loop over os.walk(folder_path) of get_png_files from directory d on:
\* the .png files of d, then each subdirectory of d but '.bf', which is taken
\* out of dirs.
Walk(tree, d) ==
    LET files == SortedSeq(FilesIn(tree, d))
        png == SelectSeq(files, LAMBDA i : IsPngName(BaseName(FileUniverse[i])))
        under == {i \in tree : /\ Len(FileUniverse[i]) > Len(d) + 1
                               /\ SubSeq(FileUniverse[i], 1, Len(d)) = d}
        first == {SetMin(Below(tree, d, FileUniverse[i][Len(d) + 1])) : i \in under}
        dirs == [k \in 1..Cardinality(first) |->
                    FileUniverse[SortedSeq(first)[k]][Len(d) + 1]]
        kept == KeptDirs(dirs)
    IN  png \o WalkEach(tree, d, kept)

\* os.walk going down into the subdirectories names of d, one after the other.
WalkEach(tree, d, names) ==
    IF names = << >> THEN << >>
    ELSE Walk(tree, d \o << Head(names) >>) \o WalkEach(tree, d, Tail(names))

\* get_png_files(root_folder): the absolute paths of the files found.
GetPngFiles(tree) ==
    LET found == Walk(tree, << >>)
    IN  [k \in 1..Len(found) |-> RootFolder \o FileUniverse[found[k]]]

\* output_format, output_dir_base (lines 576, 577)
OutputFormat(choice) == IF choice = 1 THEN FMT_JPG ELSE FMT_WEBP

OutputDirBase(choice) == PNG_TO \o Upper(OutputFormat(choice))

\* No path: the None convert_and_write_metadata returns.
NoPath == << None >>

\* An output_sub_dir that does not follow the source file below the root.
OutputSubDirFlat(png_path, output_dir_base, root_folder, output_dir_type) ==
    IF output_dir_type = 1
    THEN DirName(root_folder) \o << output_dir_base >>
    ELSE IF output_dir_type = 2
    THEN DirName(png_path) \o << output_dir_base >>
    ELSE NoPath

\* output_sub_dir (lines 398-432), NoPath for an output_dir_type that is no mode.
OutputSubDir(png_path, output_dir_base, root_folder, output_dir_type) ==
    IF output_dir_type = 1
    THEN (DirName(root_folder) \o << output_dir_base >>)
         \o RelPath(DirName(png_path), root_folder)
    ELSE IF output_dir_type = 2
    THEN DirName(png_path) \o << output_dir_base >>
    ELSE NoPath

\* An output_path that is the path of the source itself.
OutputPathInPlace(png_path, output_format, output_dir_base, root_folder, output_dir_type) ==
    IF output_dir_type \notin {1, 2} THEN NoPath ELSE png_path

\* output_path (lines 395-432)
OutputPath(png_path, output_format, output_dir_base, root_folder, output_dir_type) ==
    IF output_dir_type \notin {1, 2} THEN NoPath
    ELSE OutputSubDir(png_path, output_dir_base, root_folder, output_dir_type)
         \o << SplitExtRoot(BaseName(png_path)) \o DOT \o output_format >>


(***************************************************************************)
(* The state of a run                                                      *)
(***************************************************************************)
VARIABLES
    tree,                \* the files below the root folder (places in FileUniverse)
    parameters,          \* the 'parameters' text of each of them (empty: none)
    choice,              \* 1: JPG, 2: WebP
    choice_dir,          \* 1: mirrored sibling tree, 2: subfolder beside the source
    main_pc,             \* where main_conversion_process is
    tasks_data,          \* tasks_data: png_path and raw_metadata of every task
    task_pc,             \* where each task (its future) is
    new_file_path,       \* new_file_path of each task
    scan_exif,           \* the tags each task's scan read from its new file
    result,              \* the row each task returned
    fs,                  \* the destination files written, with their tags
    current_file,        \* the global _current_processing_file
    conversion_results,  \* the ledger
    success_count,
    failure_count,
    inconsistent_count,
    yielded,             \* the futures as_completed has handed out
    cur,                 \* the future whose result the loop is handling
    appending,           \* the threads with an append to the ledger under way
    fn_pc,               \* a function under study: the calls made
    fn_in,               \* its argument
    fn_out               \* its results

vars ==
    << tree, parameters, choice, choice_dir, main_pc, tasks_data, task_pc,
       new_file_path, scan_exif, result, fs, current_file, conversion_results,
       success_count, failure_count, inconsistent_count, yielded, cur, appending,
       fn_pc, fn_in, fn_out >>

inputVars == << tree, parameters, choice, choice_dir >>

fnVars == << fn_pc, fn_in, fn_out >>

ledgerVars == << conversion_results, success_count, failure_count, inconsistent_count >>

runVars ==
    << main_pc, tasks_data, task_pc, new_file_path, scan_exif, result, fs, current_file,
       conversion_results, success_count, failure_count, inconsistent_count, yielded, cur,
       appending >>

(***************************************************************************)
(* The conversion task and its ledger row                                  *)
(***************************************************************************)
\* 'Steps: 1, Sampler: a'
TEXT_VALID == <<
    83, 116, 101, 112, 115, 58, 32, 49, 44, 32, 83, 97, 109, 112, 108, 101, 114, 58, 32, 97 >>

\* The 'parameters' text chunks the source pictures come with: none, a valid
\* generation block, one led by the token UNICODE, and the very text the
\* extractor reports when it finds nothing.
MetaTexts == { << >>, TEXT_VALID, UNICODE_TOKEN \o << 32 >> \o TEXT_VALID, NO_INFO }

\* image_extensions (line 100)
ImageExtensions == {EXT_PNG, EXT_JPG, EXT_JPEG, EXT_GIF, EXT_BMP, EXT_WEBP}

\* generate_exif_bytes(raw_metadata) as the written file carries it.
GenerateExifBytes(raw_metadata) == ExifOf(raw_metadata)

\* The tags img.save is given although the encoder made none.
SaveKwargsUnchecked(raw_metadata, exif_bytes) ==
    IF raw_metadata # << >> THEN exif_bytes ELSE NoExif

\* save_kwargs['exif'] (lines 443-454) for the exif_bytes the encoder returned,
\* None when it failed: the tags, or nothing for an empty text or a failed
\* encoding.
SaveKwargs(raw_metadata, exif_bytes) ==
    IF raw_metadata # << >> /\ exif_bytes # None THEN exif_bytes ELSE NoExif

\* What img.save writes for the task's metadata (lines 443-484) when the
\* encoder does its work.
SavedExif(raw_metadata) == SaveKwargs(raw_metadata, GenerateExifBytes(raw_metadata))

\* process_single_image(new_file_path)["去掉换行符的生成信息"] for a file holding
\* the tags exif; None when the path is no picture (line 102-103).
ScanResult(path, exif) ==
    IF \A e \in ImageExtensions : ~EndsWith(Lower(BaseName(path)), e) THEN None
    ELSE SdInfoNoNewlines(RawMetadataString(exif))

\* new_file_info_string (lines 524-527)
NewFileInfoString(path, exif) ==
    LET new_file_scan_result == ScanResult(path, exif)
    IN  IF new_file_scan_result = None THEN NOT_SCANNED ELSE new_file_scan_result

\* The historical check by containment.
IsConsistentBySubstring(raw_png_info_no_newlines, new_file_info_string) ==
    IF /\ raw_png_info_no_newlines # << >>
       /\ \/ Contains(raw_png_info_no_newlines, new_file_info_string)
          \/ Contains(new_file_info_string, raw_png_info_no_newlines)
    THEN YES ELSE NO

\* is_consistent (lines 533-536)
IsConsistent(raw_png_info_no_newlines, new_file_info_string) ==
    IF /\ raw_png_info_no_newlines # << >>
       /\ raw_png_info_no_newlines = new_file_info_string
    THEN YES ELSE NO

\* A task that succeeds only when the texts agree.
TaskSucceededIfConsistent(new_path, is_consistent) == new_path # NoPath /\ is_consistent = YES

\* "success" of the row of a task whose write gave new_path (lines 520, 545, 558).
TaskSucceeded(new_path, is_consistent) == new_path # NoPath

\* The row process_conversion_task returns (lines 519-559): new_path is what
\* convert_and_write_metadata returned, exif what the scan of the new file read.
TaskRow(png_path, raw_metadata, new_path, exif) ==
    IF new_path # NoPath
    THEN LET info == NewFileInfoString(new_path, exif)
             flag == IsConsistent(Flatten(raw_metadata), info)
         IN  [src |-> png_path, src_info |-> Flatten(raw_metadata),
              dst |-> new_path, dst_info |-> info,
              consistent |-> flag, success |-> TaskSucceeded(new_path, flag)]
    ELSE [src |-> png_path, src_info |-> Flatten(raw_metadata),
          dst |-> << CONVERT_FAILED >>, dst_info |-> CONVERT_FAILED,
          consistent |-> NO_CONVERT_FAILED,
          success |-> TaskSucceeded(new_path, NO_CONVERT_FAILED)]

\* The result of a future that has not returned: no row.
NoRow ==
    [src |-> NoPath, src_info |-> None, dst |-> NoPath, dst_info |-> None,
     consistent |-> None, success |-> FALSE]

\* The row of a task that raised, under the path the submit loop ended with.
ExceptionRowStalePath(png_path) ==
    [src |-> tasks_data[Len(tasks_data)].png_path, src_info |-> TASK_EXC_INFO,
     dst |-> << TASK_EXC_FAILED >>, dst_info |-> TASK_EXC_FAILED,
     consistent |-> NO_TASK_EXC, success |-> FALSE]

\* The row main_conversion_process writes for a task that raised (lines 660-667),
\* under png_path = futures_to_path[future].
ExceptionRow(png_path) ==
    [src |-> png_path, src_info |-> TASK_EXC_INFO,
     dst |-> << TASK_EXC_FAILED >>, dst_info |-> TASK_EXC_FAILED,
     consistent |-> NO_TASK_EXC, success |-> FALSE]

\* A collector that lets the exception of a task go.
LedgerAfterUncaught(results, raised, row, png_path) ==
    IF raised THEN results ELSE Append(results, row)

\* conversion_results after one pass of the loop over the completed futures
\* (lines 644-667): the task's row, or the row of the exception it raised.
LedgerAfter(results, raised, row, png_path) ==
    IF raised THEN Append(results, ExceptionRow(png_path)) ELSE Append(results, row)

\* A worker that appends its row to the shared list itself.
WorkerAppendsItself(i) == {i}

\* The appends to conversion_results a worker starts when its task ends: none,
\* the task only returns its row (lines 539, 552).
WorkerAppends(i) == {}

\* The thread of main_conversion_process, among the worker numbers 1..N.
MainThread == 0


(***************************************************************************)
(* main_conversion_process and its worker pool                             *)
(***************************************************************************)
N == Len(tasks_data)

\* The files get_png_files finds, as places in FileUniverse.
Discovered(t) == Walk(t, << >>)

InSeq(x, q) == \E k \in 1..Len(q) : q[k] = x

\* extract_metadata_from_png(png_path), stripped when not empty (lines 596-599).
PreExtracted(i) == StripIfAny(parameters[i])

\* The state before main_conversion_process is called.
\* success_count after the future of a task was recorded (lines 651-654): one
\* more for a returned row that says success.
SuccessCountAfter(count, raised, row) ==
    IF ~raised /\ row.success THEN count + 1 ELSE count

\* A failure count that leaves out the tasks that raised.
FailureCountReturnedOnly(count, raised, row) ==
    IF raised \/ row.success THEN count ELSE count + 1

\* failure_count after the future of a task was recorded (lines 655-658): one
\* more for a returned row that says failure and for a task that raised.
FailureCountAfter(count, raised, row) ==
    IF ~raised /\ row.success THEN count ELSE count + 1

\* A count of every row whose flag begins with the word for no.
InconsistentCountByPrefix(rows) ==
    Cardinality({k \in 1..Len(rows) : StartsWith(rows[k].consistent, NO)})

\* inconsistent_count (line 677): the rows whose flag is the word for no itself.
InconsistentCount(rows) ==
    Cardinality({k \in 1..Len(rows) : rows[k].consistent = NO})

PipelineIdle ==
    /\ main_pc = "start"
    /\ tasks_data = << >>
    /\ task_pc = << >>
    /\ new_file_path = << >>
    /\ scan_exif = << >>
    /\ result = << >>
    /\ fs = << >>
    /\ current_file = NoPath
    /\ conversion_results = << >>
    /\ success_count = 0
    /\ failure_count = 0
    /\ inconsistent_count = 0
    /\ yielded = {}
    /\ cur = 0
    /\ appending = {}

Init ==
    /\ tree \in {t \in SUBSET (1..Len(FileUniverse)) : Cardinality(t) <= MaxFiles}
    /\ parameters \in {f \in [tree -> MetaTexts] :
                          \A i \in tree : ~InSeq(i, Discovered(tree)) => f[i] = << >>}
    /\ choice \in {1, 2}
    /\ choice_dir \in {1, 2}
    /\ PipelineIdle
    /\ fn_pc = "off"
    /\ fn_in = << >>
    /\ fn_out = << >>

\* Lines 574-610: discovery and pre-extraction; without a file the function returns.
Prepare ==
    /\ main_pc = "start"
    /\ LET found == Discovered(tree)
       IN  IF Len(found) = 0
           THEN /\ main_pc' = "returned"
                /\ UNCHANGED << tasks_data, task_pc, new_file_path, scan_exif, result >>
           ELSE /\ main_pc' = "submit"
                /\ tasks_data' = [k \in 1..Len(found) |->
                                     [png_path |-> RootFolder \o FileUniverse[found[k]],
                                      raw_metadata |-> PreExtracted(found[k])]]
                /\ task_pc' = [k \in 1..Len(found) |-> "unsubmitted"]
                /\ new_file_path' = [k \in 1..Len(found) |-> NoPath]
                /\ scan_exif' = [k \in 1..Len(found) |-> NoExif]
                /\ result' = [k \in 1..Len(found) |-> NoRow]
    /\ UNCHANGED << inputVars, fnVars, ledgerVars, fs, current_file, yielded, cur, appending >>

\* The submit loop (line 619) is at task i.
NextToSubmit(i) ==
    /\ main_pc = "submit"
    /\ task_pc[i] = "unsubmitted"
    /\ \A j \in 1..(i - 1) : task_pc[j] # "unsubmitted"

\* Lines 619-634: executor.submit of the next task, in the order of tasks_data.
Submit(i) ==
    /\ NextToSubmit(i)
    /\ task_pc' = [task_pc EXCEPT ![i] = "pending"]
    /\ main_pc' = IF i = N THEN "collect" ELSE "submit"
    /\ UNCHANGED << inputVars, fnVars, ledgerVars, tasks_data, new_file_path, scan_exif,
                    result, fs, current_file, yielded, cur, appending >>

Running == {j \in 1..N : task_pc[j] \in {"running", "written", "scanning"}}

\* Task i is the oldest in the queue of the pool and a worker is free.
NextToStart(i) ==
    /\ task_pc[i] = "pending"
    /\ \A j \in 1..(i - 1) : task_pc[j] # "pending"
    /\ Cardinality(Running) < MAX_WORKERS

\* A free worker of the pool takes the oldest pending task.
Start(i) ==
    /\ NextToStart(i)
    /\ task_pc' = [task_pc EXCEPT ![i] = "running"]
    /\ UNCHANGED << inputVars, fnVars, ledgerVars, main_pc, tasks_data, new_file_path,
                    scan_exif, result, fs, current_file, yielded, cur, appending >>

\* convert_and_write_metadata (lines 378-496) as called at line 510.  os.makedirs
\* may raise, which ends the task; opening the source or saving the picture may
\* fail, which the function answers with None; else the file is written.
Convert(i) ==
    /\ task_pc[i] = "running"
    /\ LET t == tasks_data[i]
           out == OutputPath(t.png_path, OutputFormat(choice), OutputDirBase(choice),
                             RootFolder, choice_dir)
       IN  \E outcome \in {"written", "makedirs raises", "open or save fails"} :
               IF out # NoPath /\ outcome = "makedirs raises"
               THEN /\ task_pc' = [task_pc EXCEPT ![i] = "raised"]
                    /\ UNCHANGED << new_file_path, result, fs, appending >>
               ELSE IF out = NoPath \/ outcome = "open or save fails"
               THEN /\ task_pc' = [task_pc EXCEPT ![i] = "returned"]
                    /\ result' = [result EXCEPT
                                     ![i] = TaskRow(t.png_path, t.raw_metadata, NoPath, NoExif)]
                    /\ appending' = appending \cup WorkerAppends(i)
                    /\ UNCHANGED << new_file_path, fs >>
               ELSE /\ task_pc' = [task_pc EXCEPT ![i] = "written"]
                    /\ new_file_path' = [new_file_path EXCEPT ![i] = out]
                    /\ fs' = (NormPath(out) :> SavedExif(t.raw_metadata)) @@ fs
                    /\ UNCHANGED << result, appending >>
    /\ UNCHANGED << inputVars, fnVars, ledgerVars, main_pc, tasks_data, scan_exif,
                    current_file, yielded, cur >>

\* process_single_image(new_file_path), lines 126-200: the global is set and the
\* tags of the new file are read.
ScanOpen(i) ==
    /\ task_pc[i] = "written"
    /\ current_file' = new_file_path[i]
    /\ scan_exif' = [scan_exif EXCEPT ![i] = fs[NormPath(new_file_path[i])]]
    /\ task_pc' = [task_pc EXCEPT ![i] = "scanning"]
    /\ UNCHANGED << inputVars, fnVars, ledgerVars, main_pc, tasks_data, new_file_path,
                    result, fs, yielded, cur, appending >>

\* process_single_image, lines 202-284, and the rest of process_conversion_task,
\* lines 524-546: the global is cleared, the row is made and returned.
ScanClose(i) ==
    /\ task_pc[i] = "scanning"
    /\ current_file' = NoPath
    /\ result' = [result EXCEPT
                     ![i] = TaskRow(tasks_data[i].png_path, tasks_data[i].raw_metadata,
                                    new_file_path[i], scan_exif[i])]
    /\ task_pc' = [task_pc EXCEPT ![i] = "returned"]
    /\ appending' = appending \cup WorkerAppends(i)
    /\ UNCHANGED << inputVars, fnVars, ledgerVars, main_pc, tasks_data, new_file_path,
                    scan_exif, fs, yielded, cur >>

\* as_completed (line 644) has future i to hand out: it is finished, with a row
\* or with an exception, and was not handed out before.
Completed(i) ==
    /\ main_pc = "collect"
    /\ i \notin yielded
    /\ task_pc[i] \in {"returned", "raised"}

\* Lines 644-648: as_completed hands out a finished future, in any order, and
\* the loop starts to record it.
TakeCompleted(i) ==
    /\ Completed(i)
    /\ yielded' = yielded \cup {i}
    /\ cur' = i
    /\ appending' = appending \cup {MainThread}
    /\ main_pc' = "append"
    /\ UNCHANGED << inputVars, fnVars, ledgerVars, tasks_data, task_pc, new_file_path,
                    scan_exif, result, fs, current_file >>

\* Lines 647-667: the row of the future, or of its exception, is appended and
\* counted.
Record ==
    /\ main_pc = "append"
    /\ LET raised == task_pc[cur] = "raised"
       IN  /\ conversion_results' =
                  LedgerAfter(conversion_results, raised, result[cur], tasks_data[cur].png_path)
           /\ success_count' = SuccessCountAfter(success_count, raised, result[cur])
           /\ failure_count' = FailureCountAfter(failure_count, raised, result[cur])
    /\ appending' = appending \ {MainThread}
    /\ main_pc' = IF yielded = 1..N THEN "summary" ELSE "collect"
    /\ UNCHANGED << inputVars, fnVars, inconsistent_count, tasks_data, task_pc,
                    new_file_path, scan_exif, result, fs, current_file, yielded, cur >>

\* Lines 670-678: the pool is shut down and the totals are reported.
Summarize ==
    /\ main_pc = "summary"
    /\ inconsistent_count' = InconsistentCount(conversion_results)
    /\ main_pc' = "done"
    /\ UNCHANGED << inputVars, fnVars, conversion_results, success_count, failure_count,
                    tasks_data, task_pc, new_file_path, scan_exif, result, fs,
                    current_file, yielded, cur, appending >>

Next ==
    \/ Prepare
    \/ \E i \in 1..N : Submit(i)
    \/ \E i \in 1..N : Start(i)
    \/ \E i \in 1..N : Convert(i)
    \/ \E i \in 1..N : ScanOpen(i)
    \/ \E i \in 1..N : ScanClose(i)
    \/ \E i \in 1..N : TakeCompleted(i)
    \/ Record
    \/ Summarize

Spec == Init /\ [][Next]_vars


\* report_file (line 578) without its time stamp, and the file of the error log
\* (line 44); both are relative to the working directory, here the root folder
\* itself.
ReportFile(output_format) == RootFolder \o << (REPORT_PREFIX \o output_format) \o EXT_XLSX >>

ErrorLogFile == RootFolder \o << ERROR_LOG >>

\* The paths the program has written to: the error log, the destination files,
\* and the report once a run with rows is over (lines 673-682).
WrittenPaths ==
    ({ErrorLogFile} \cup DOMAIN fs)
        \cup (IF main_pc = "done" /\ conversion_results # << >>
              THEN {ReportFile(OutputFormat(choice))}
              ELSE {})

(***************************************************************************)
(* The core-term reduction, applied to a positive prompt and to its result *)
(***************************************************************************)
\* The most pieces a prompt is put together from.
MaxPieces == 3

\* The pieces of the prompts: halves of a stop word, a stop word whole and in
\* other letter case, a space, and a tag that is no stop word.
PromptPieces ==
    { PIECE_SEXY_AND, << 32 >>, PIECE_CUTE, STOP_WORD_4, PIECE_MIXED_CASE, KW_1GIRL,
      PIECE_DYNAMIC_POSE, PIECE_SEXY_POSE }

RECURSIVE PieceTexts(_)

PieceTexts(n) ==
    IF n = 0 THEN {<< >>}
    ELSE PieceTexts(n - 1) \cup {t \o p : t \in PieceTexts(n - 1), p \in PromptPieces}

\* positive_prompt as lines 224-238 leave it: stripped, maybe empty.
PositivePrompts == {Strip(t) : t \in PieceTexts(MaxPieces)}

InitReduce ==
    /\ tree = {}
    /\ parameters = << >>
    /\ choice = 1
    /\ choice_dir = 1
    /\ PipelineIdle
    /\ fn_pc = "ready"
    /\ fn_in \in PositivePrompts
    /\ fn_out = << >>

\* Lines 250-258 on the positive prompt.
ReduceOnce ==
    /\ fn_pc = "ready"
    /\ fn_out' = << CorePositivePrompt(fn_in) >>
    /\ fn_pc' = "once"
    /\ UNCHANGED << fn_in, inputVars, runVars >>

\* Lines 250-258 on the core terms they gave.
ReduceAgain ==
    /\ fn_pc = "once"
    /\ fn_out' = Append(fn_out, CorePositivePrompt(fn_out[1]))
    /\ fn_pc' = "twice"
    /\ UNCHANGED << fn_in, inputVars, runVars >>

NextReduce ==
    \/ ReduceOnce
    \/ ReduceAgain

SpecReduce == InitReduce /\ [][NextReduce]_vars


(***************************************************************************)
(* process_single_image on one file: from raw_metadata_string to the record *)
(***************************************************************************)
\* The most parts a metadata text is put together from.
MaxParts == 3

\* The parts of the metadata texts: two valid settings lines, a negative
\* prompt, a quality tag, a model setting, a line feed, a settings line whose
\* sampler is blank before a control character, the token UNICODE and a text
\* shorter than every anchor keyword.
TextParts ==
    { PART_STEPS_20, PART_NEGATIVE_X, PART_MASTERPIECE, PART_MODEL, PART_STEPS_10,
      PART_SAMPLER_BLANK, PART_AB, UNICODE_TOKEN, << 10 >> }

RECURSIVE PartTexts(_)

PartTexts(n) ==
    IF n = 0 THEN {<< >>}
    ELSE PartTexts(n - 1) \cup {t \o p : t \in PartTexts(n - 1), p \in TextParts}

\* raw_metadata_string as stage 1 leaves it for a PNG file (lines 142-146):
\* stripped, maybe empty.
RawMetadataStrings == {StripIfAny(t) : t \in PartTexts(MaxParts)}

InitRecord ==
    /\ tree = {}
    /\ parameters = << >>
    /\ choice = 1
    /\ choice_dir = 1
    /\ PipelineIdle
    /\ fn_pc = "opened"
    /\ fn_in \in RawMetadataStrings
    /\ fn_out = << >>

\* Lines 202-284: the text was read; the block is extracted, validated and split
\* and the record is returned.
ScanText ==
    /\ fn_pc = "opened"
    /\ fn_out' = << GenerationRecord(fn_in) >>
    /\ fn_pc' = "scanned"
    /\ UNCHANGED << fn_in, inputVars, runVars >>

\* Lines 128-200, 265-284: reading the file raised; the exception is caught and
\* the record is returned as it stands.
ScanRaises ==
    /\ fn_pc = "opened"
    /\ fn_out' = << InitialRecord >>
    /\ fn_pc' = "caught"
    /\ UNCHANGED << fn_in, inputVars, runVars >>

NextRecord ==
    \/ ScanText
    \/ ScanRaises

SpecRecord == InitRecord /\ [][NextRecord]_vars


(***************************************************************************)
(* A metadata string encoded by generate_exif_bytes, its UserComment value *)
(* decoded by extract_sd_params_from_user_comment                          *)
(***************************************************************************)
\* The most characters of a metadata string.
MaxChars == 3

\* The characters of the metadata strings: 'S', a space, NUL, 'é' and '中'.
MetadataChars == {83, 32, 0, 233, 20013}

RECURSIVE CharTexts(_)

CharTexts(n) ==
    IF n = 0 THEN {<< >>}
    ELSE CharTexts(n - 1) \cup {Append(t, c) : t \in CharTexts(n - 1), c \in MetadataChars}

InitRoundTrip ==
    /\ tree = {}
    /\ parameters = << >>
    /\ choice = 1
    /\ choice_dir = 1
    /\ PipelineIdle
    /\ fn_pc = "text"
    /\ fn_in \in CharTexts(MaxChars)
    /\ fn_out = << >>

\* generate_exif_bytes(raw_metadata): the value of its UserComment tag.
EncodeExif ==
    /\ fn_pc = "text"
    /\ fn_out' = << UserCommentValue(GenerateExifBytes(fn_in)) >>
    /\ fn_pc' = "encoded"
    /\ UNCHANGED << fn_in, inputVars, runVars >>

\* extract_sd_params_from_user_comment on that value.
DecodeUserComment ==
    /\ fn_pc = "encoded"
    /\ fn_out' = Append(fn_out, ExtractSdParamsFromUserComment(fn_out[1]))
    /\ fn_pc' = "decoded"
    /\ UNCHANGED << fn_in, inputVars, runVars >>

NextRoundTrip ==
    \/ EncodeExif
    \/ DecodeUserComment

SpecRoundTrip == InitRoundTrip /\ [][NextRoundTrip]_vars


(***************************************************************************)
(* process_conversion_task on one file, under every layout mode value and  *)
(* with an encoder that may fail                                           *)
(***************************************************************************)
\* The values of output_dir_type: the two modes and one that is no mode.
LayoutModes == {1, 2, 3}

\* The arguments of one task: a discovered file, its text, the format choice,
\* the layout mode, and whether the try block of generate_exif_bytes raises
\* (lines 351-376; it then returns None).
TaskInputs ==
    [png_path : {RootFolder \o FileUniverse[i] : i \in {1, 3}},
     raw_metadata : MetaTexts,
     choice : {1, 2},
     output_dir_type : LayoutModes,
     encoder_raises : BOOLEAN]

\* Nothing done yet: no path returned, no directory made, no file written.
NothingDone ==
    [io |-> "none", new_file_path |-> NoPath, dirs |-> {}, files |-> << >>, row |-> NoRow]

InitTask ==
    /\ tree = {}
    /\ parameters = << >>
    /\ choice = 1
    /\ choice_dir = 1
    /\ PipelineIdle
    /\ fn_pc = "task"
    /\ fn_in \in TaskInputs
    /\ fn_out = NothingDone

\* convert_and_write_metadata (lines 378-496): a layout mode that is none
\* returns None at once; else os.makedirs makes the directory or raises, the
\* picture is opened, the encoder is asked for the tags when there is a text,
\* and the picture is saved, or opening or saving fails and None is returned.
ConvertAndWrite ==
    /\ fn_pc = "task"
    /\ LET out == OutputPath(fn_in.png_path, OutputFormat(fn_in.choice),
                             OutputDirBase(fn_in.choice), RootFolder, fn_in.output_dir_type)
           sub == OutputSubDir(fn_in.png_path, OutputDirBase(fn_in.choice), RootFolder,
                               fn_in.output_dir_type)
           exif_bytes == IF fn_in.encoder_raises THEN None
                         ELSE GenerateExifBytes(fn_in.raw_metadata)
       IN  \E outcome \in {"written", "makedirs raises", "open or save fails"} :
               IF out = NoPath
               THEN /\ fn_pc' = "converted"
                    /\ fn_out' = fn_out
               ELSE IF outcome = "makedirs raises"
               THEN /\ fn_pc' = "raised"
                    /\ fn_out' = [fn_out EXCEPT !.io = outcome]
               ELSE IF outcome = "open or save fails"
               THEN /\ fn_pc' = "converted"
                    /\ fn_out' = [fn_out EXCEPT !.io = outcome, !.dirs = {NormPath(sub)}]
               ELSE /\ fn_pc' = "converted"
                    /\ fn_out' = [fn_out EXCEPT
                                     !.io = outcome,
                                     !.dirs = {NormPath(sub)},
                                     !.new_file_path = out,
                                     !.files = NormPath(out) :>
                                                   SaveKwargs(fn_in.raw_metadata, exif_bytes)]
    /\ UNCHANGED << fn_in, inputVars, runVars >>

\* The rest of process_conversion_task (lines 519-559): the new file is scanned
\* and the row is returned.
ReturnRow ==
    /\ fn_pc = "converted"
    /\ fn_out' = [fn_out EXCEPT
                     !.row = TaskRow(fn_in.png_path, fn_in.raw_metadata, fn_out.new_file_path,
                                     IF fn_out.new_file_path = NoPath THEN NoExif
                                     ELSE fn_out.files[NormPath(fn_out.new_file_path)])]
    /\ fn_pc' = "returned"
    /\ UNCHANGED << fn_in, inputVars, runVars >>

NextTask ==
    \/ ConvertAndWrite
    \/ ReturnRow

SpecTask == InitTask /\ [][NextTask]_vars


(***************************************************************************)
(* decode_exif_bytes and extract_sd_params_from_user_comment on the raw     *)
(* bytes of a tag                                                           *)
(***************************************************************************)
\* The most bytes of a tag value, after its header if it has one.
MaxBytes == 3

\* The bytes of the tag values: NUL, 'S', 0x80, 0xD0, 0xD8, 0xE4 and 0xFF.
DebugBytes == {0, 83, 128, 208, 216, 228, 255}

RECURSIVE ByteStrings(_)

ByteStrings(n) ==
    IF n = 0 THEN {<< >>}
    ELSE ByteStrings(n - 1) \cup {Append(t, c) : t \in ByteStrings(n - 1), c \in DebugBytes}

\* The tag values: with the header UNICODE\0 and without it.
RawBytes == ByteStrings(MaxBytes) \cup {UNICODE_PREFIX \o t : t \in ByteStrings(MaxBytes)}

InitDecode ==
    /\ tree = {}
    /\ parameters = << >>
    /\ choice = 1
    /\ choice_dir = 1
    /\ PipelineIdle
    /\ fn_pc = "bytes"
    /\ fn_in \in RawBytes
    /\ fn_out = << >>

\* decode_exif_bytes(tag_name, raw_bytes) returns decoding_results.
DecodeCandidates ==
    /\ fn_pc = "bytes"
    /\ fn_out' = DecodeExifBytes(fn_in)
    /\ fn_pc' = "candidates"
    /\ UNCHANGED << fn_in, inputVars, runVars >>

\* extract_sd_params_from_user_comment(raw_bytes) returns its pair.
ExtractSdParams ==
    /\ fn_pc = "bytes"
    /\ fn_out' = << RawDecodedText(fn_in), ExtractSdParamsFromUserComment(fn_in) >>
    /\ fn_pc' = "extracted"
    /\ UNCHANGED << fn_in, inputVars, runVars >>

NextDecode ==
    \/ DecodeCandidates
    \/ ExtractSdParams

SpecDecode == InitDecode /\ [][NextDecode]_vars


(***************************************************************************)
(* The picture handed to img.save (lines 463-484).  A picture is one pixel *)
(* in a Pillow mode: L (grey), LA (grey, alpha), RGB, RGBA.                *)
(***************************************************************************)
\* The values of a colour channel and of the alpha channel of the pictures.
ChannelValues == {0, 128, 255}

AlphaValues == {0, 255}

\* The pictures a PNG file opens as.
Images ==
    [mode : {"L"}, px : {<< v >> : v \in ChannelValues}]
        \cup [mode : {"LA"}, px : {<< v, a >> : v \in ChannelValues, a \in AlphaValues}]
        \cup [mode : {"RGB"}, px : {<< r, g, b >> : r \in ChannelValues, g \in {0, 255}, b \in {0, 255}}]
        \cup [mode : {"RGBA"},
              px : {<< r, g, b, a >> : r \in ChannelValues, g \in {0, 255}, b \in {0, 255},
                                       a \in AlphaValues}]

\* (255, 255, 255)
WHITE == << 255, 255, 255 >>

\* img.convert('RGB'): a grey value becomes the three colours, the colours stay,
\* an alpha channel is dropped.
ConvertRGB(img) ==
    [mode |-> "RGB",
     px |-> IF img.mode \in {"L", "LA"} THEN << img.px[1], img.px[1], img.px[1] >>
            ELSE SubSeq(img.px, 1, 3)]

\* background.paste(img, mask=img.split()[3]) on a white background (lines
\* 470-472): under a mask of 255 the pixel of img, under a mask of 0 the
\* background.
PasteOnWhite(img) ==
    [mode |-> "RGB", px |-> IF img.px[4] = 255 THEN SubSeq(img.px, 1, 3) ELSE WHITE]

\* img as it is handed to img.save(output_path, 'jpeg', ...) (lines 464-479).
ImageForJpeg(img) ==
    IF img.mode = "RGBA" THEN PasteOnWhite(img)
    ELSE IF img.mode # "RGB" THEN ConvertRGB(img)
    ELSE img

\* img as it is handed to img.save(output_path, 'webp', ...) (lines 481-484).
ImageForWebp(img) == img

InitImage ==
    /\ tree = {}
    /\ parameters = << >>
    /\ choice = 1
    /\ choice_dir = 1
    /\ PipelineIdle
    /\ fn_pc = "opened"
    /\ fn_in \in Images
    /\ fn_out = << >>

\* output_format == 'jpg': the picture is made RGB and saved.
SaveJpeg ==
    /\ fn_pc = "opened"
    /\ fn_out' = ImageForJpeg(fn_in)
    /\ fn_pc' = "jpeg"
    /\ UNCHANGED << fn_in, inputVars, runVars >>

\* output_format == 'webp': the picture is saved as it is.
SaveWebp ==
    /\ fn_pc = "opened"
    /\ fn_out' = ImageForWebp(fn_in)
    /\ fn_pc' = "webp"
    /\ UNCHANGED << fn_in, inputVars, runVars >>

NextImage ==
    \/ SaveJpeg
    \/ SaveWebp

SpecImage == InitImage /\ [][NextImage]_vars


(***************************************************************************)
(* Properties of the pipeline                                              *)
(***************************************************************************)
RowCount == Len(conversion_results)

\* The places in the ledger of the rows of source file p.
RowsOf(p) == {k \in 1..RowCount : conversion_results[k].src = p}

\* The task of source file p.
TaskOf(p) == CHOOSE i \in 1..N : tasks_data[i].png_path = p

Finished(i) == task_pc[i] \in {"returned", "raised"}

AllRowsSucceeded == \A k \in 1..RowCount : conversion_results[k].success

\* C1: when main_conversion_process is done, the ledger holds exactly one row for
\* every file get_png_files returns and no other row, in whatever order the tasks
\* completed and whether they returned a row, returned a failure or raised.
C1_OneRowPerDiscoveredFile ==
    main_pc = "done" =>
        /\ RowCount = Len(GetPngFiles(tree))
        /\ \A k \in 1..Len(GetPngFiles(tree)) :
               Cardinality(RowsOf(GetPngFiles(tree)[k])) = 1

\* Two files, the second completed first, one task raised and one wrote its file.
C1_Witness ==
    /\ main_pc = "done"
    /\ RowCount = 2
    /\ conversion_results[1].src = tasks_data[2].png_path
    /\ task_pc[2] = "raised"
    /\ conversion_results[2].success

\* The run goes on: the main thread or a worker has a step to take.
RunGoesOn ==
    \/ main_pc \in {"append", "summary"}
    \/ \E j \in 1..N :
           \/ NextToSubmit(j)
           \/ NextToStart(j)
           \/ j \in Running
           \/ Completed(j)

\* C2: a task that raised is recorded as one failed row for its own file; the run
\* is not aborted: until it is done the main thread or a worker always has a next
\* step to take, and when it is done every other task has finished and has its
\* own row in the ledger.
C2_RaisedTaskDoesNotAbort ==
    \A i \in 1..N :
        task_pc[i] = "raised" =>
            /\ main_pc # "done" => RunGoesOn
            /\ main_pc = "done" =>
                   /\ \E k \in 1..RowCount :
                          /\ RowsOf(tasks_data[i].png_path) = {k}
                          /\ conversion_results[k] = ExceptionRow(tasks_data[i].png_path)
                   /\ \A j \in 1..N :
                          /\ Finished(j)
                          /\ Cardinality(RowsOf(tasks_data[j].png_path)) = 1
                          /\ task_pc[j] = "returned" =>
                                 \E k \in 1..RowCount : conversion_results[k] = result[j]

\* The first task raised, the second one wrote its file after that and the run
\* is done.
C2_Witness ==
    /\ main_pc = "done"
    /\ N = 2
    /\ task_pc[1] = "raised"
    /\ task_pc[2] = "returned"
    /\ result[2].success
    /\ conversion_results[1].src = tasks_data[1].png_path

\* C3: the row of a task whose write succeeded is marked consistent exactly when
\* the flattened original text equals the flattened text extracted from what the
\* scan read in the new file.
C3_ConsistentIffEqual ==
    \A i \in 1..N :
        (task_pc[i] = "returned" /\ new_file_path[i] # NoPath) =>
            /\ result[i].src_info = Flatten(tasks_data[i].raw_metadata)
            /\ result[i].dst_info = NewFileInfoString(new_file_path[i], scan_exif[i])
            /\ (result[i].consistent = YES) <=> (result[i].src_info = result[i].dst_info)
            /\ result[i].consistent \in {YES, NO}

\* The ledger holds a consistent row, and one that is not of a source whose text
\* holds all of the text read back.
C3_Witness ==
    /\ \E k \in 1..RowCount :
           conversion_results[k].success /\ conversion_results[k].consistent = YES
    /\ \E k \in 1..RowCount :
           /\ conversion_results[k].success
           /\ conversion_results[k].consistent = NO
           /\ Contains(conversion_results[k].src_info, conversion_results[k].dst_info)

\* C4: a row says succeeded exactly when convert_and_write_metadata returned a
\* path for its task, whatever its consistency flag says.
C4_SucceededIffWritten ==
    \A k \in 1..RowCount :
        LET r == conversion_results[k]
        IN  r.success <=> (new_file_path[TaskOf(r.src)] # NoPath)

\* The ledger holds a succeeded row that is not consistent, one that is, and a
\* failed one.
C4_Witness ==
    /\ \E k \in 1..RowCount :
           conversion_results[k].success /\ conversion_results[k].consistent = NO
    /\ \E k \in 1..RowCount : ~conversion_results[k].success

\* C5: tasks share no state but the ledger: while a task scans its new file,
\* what it wrote to _current_processing_file is what the variable holds - no other
\* task has written over it.
C5_NoStateSharedByTasks ==
    \A i \in 1..N : task_pc[i] = "scanning" => current_file = new_file_path[i]

\* C6: at no time are two appends to the ledger under way.
C6_AppendsMutuallyExclusive == Cardinality(appending) <= 1

\* The main thread is appending a row while a worker runs a task.
C6_Witness ==
    /\ appending = {MainThread}
    /\ \E i \in 1..N : task_pc[i] \in {"running", "written", "scanning"}

\* The row of task i when no other task touches its destination file.
RowAlone(i) ==
    LET t == tasks_data[i]
        out == OutputPath(t.png_path, OutputFormat(choice), OutputDirBase(choice),
                          RootFolder, choice_dir)
    IN  TaskRow(t.png_path, t.raw_metadata, out, SavedExif(t.raw_metadata))

\* C7: with every write succeeding, what a run leaves behind is determined by the
\* source tree, the format and the layout mode alone: every destination file
\* holds what its task wrote, and every row is the row its task makes alone.
C7_RunDeterminedByInputs ==
    (main_pc = "done" /\ AllRowsSucceeded) =>
        \A i \in 1..N :
            /\ fs[NormPath(new_file_path[i])] = SavedExif(tasks_data[i].raw_metadata)
            /\ \E k \in 1..RowCount : conversion_results[k] = RowAlone(i)

\* C8: in mirrored-tree mode, with every write succeeding, N discovered files
\* give N distinct destination files and N rows.
C8_DistinctDestinations ==
    (main_pc = "done" /\ choice_dir = 1 /\ AllRowsSucceeded) =>
        /\ Cardinality(DOMAIN fs) = N
        /\ RowCount = N

\* C9: a row is marked consistent only for a source whose text is a valid
\* generation block, and only when the text read back equals it.
C9_ConsistentOnlyIfValid ==
    \A k \in 1..RowCount :
        LET r == conversion_results[k]
        IN  r.consistent = YES =>
                /\ IsValidSdInfo(tasks_data[TaskOf(r.src)].raw_metadata)
                /\ r.src_info = r.dst_info

\* C10: the core-term reduction is idempotent: reducing the core terms of a
\* positive prompt again gives the same core terms.
C10_ReducerIdempotent == fn_pc = "twice" => fn_out[2] = fn_out[1]

(***************************************************************************)
(* Properties of the record of one file                                    *)
(***************************************************************************)
\* The block of the record validated: neither text is the sentinel.
BlockFound(r) == r.sd_info # NO_INFO /\ r.sd_info_no_newlines # NO_INFO

\* C11: for every validated text that holds "Steps: 20, Sampler: Euler a" and
\* "Negative prompt: X", wherever they stand, the negative prompt of the record
\* is "X" and its settings text starts with "Steps: 20".
C11_NegativeAndSettingsFound ==
    (/\ fn_pc = "scanned"
     /\ BlockFound(fn_out[1])
     /\ Contains(fn_in, PART_STEPS_20)
     /\ Contains(fn_in, PART_NEGATIVE_X)) =>
        /\ fn_out[1].negative_prompt = VAL_X
        /\ StartsWith(fn_out[1].other_settings, VAL_STEPS_20)

\* C12: the settings text is the flattened block from its first "Steps:" on; in
\* the text before it the negative prompt is the trimmed text after the label
\* "Negative prompt:" and the positive prompt the trimmed text before the label,
\* or the whole trimmed text when there is no label; the length is that of the
\* positive prompt; the block 'Steps: 10, Sampler: DDIM' has empty prompts and
\* no model.
C12_FieldsSplitAsStated ==
    (fn_pc = "scanned" /\ BlockFound(fn_out[1])) =>
        LET r == fn_out[1]
            s == r.sd_info_no_newlines
            p == Find(s, KW_STEPS)
            rest == SubSeq(s, 1, p - 1)
            q == Find(rest, KW_NEGATIVE)
        IN  /\ p > 0
            /\ r.other_settings = From(s, p)
            /\ q > 0 => /\ r.negative_prompt = Strip(From(rest, q + Len(KW_NEGATIVE)))
                        /\ r.positive_prompt = Strip(SubSeq(rest, 1, q - 1))
            /\ q = 0 => /\ r.negative_prompt = << >>
                        /\ r.positive_prompt = Strip(rest)
            /\ r.positive_prompt_word_count = Len(r.positive_prompt)
            /\ s = PART_STEPS_10 => /\ r.positive_prompt = << >>
                                    /\ r.negative_prompt = << >>
                                    /\ r.model_name = MODEL_NOT_FOUND

\* C13: every record process_single_image returns, also after an exception it
\* caught, is all or nothing: its block validated, or both texts of the block are
\* the sentinel, the prompts and the settings are empty, the length is 0, the
\* model is the not-found sentinel and the core terms the empty-core sentinel.
C13_RecordAllOrNothing ==
    fn_pc \in {"scanned", "caught"} =>
        LET r == fn_out[1]
        IN  \/ BlockFound(r)
            \/ /\ r.sd_info = NO_INFO
               /\ r.sd_info_no_newlines = NO_INFO
               /\ r.positive_prompt = << >>
               /\ r.negative_prompt = << >>
               /\ r.other_settings = << >>
               /\ r.positive_prompt_word_count = 0
               /\ r.model_name = MODEL_NOT_FOUND
               /\ r.core_positive_prompt = CORE_EMPTY

\* A text with a negative prompt and a settings line that did not validate was
\* scanned.
C13_Witness ==
    /\ fn_pc = "scanned"
    /\ ~BlockFound(fn_out[1])
    /\ Contains(fn_in, KW_NEGATIVE)
    /\ Contains(fn_in, KW_STEPS)

\* C14: the block of the record is not the sentinel exactly when the preprocessed
\* text - illegal characters removed, a leading "UNICODE" cut off - holds a match
\* of 'Steps: <digits>, Sampler: <word or space characters>'; else both texts of
\* the block are the sentinel, as for the empty text and for a text shorter than
\* every anchor keyword.
C14_BlockIffSettingsMatch ==
    fn_pc = "scanned" =>
        LET r == fn_out[1]
        IN  /\ BlockFound(r) <=> SdValidationSearch(CleanedString(fn_in))
            /\ ~BlockFound(r) => r.sd_info = NO_INFO /\ r.sd_info_no_newlines = NO_INFO
            /\ Len(fn_in) < Len(KW_1GIRL) => ~BlockFound(r)


(***************************************************************************)
(* Properties of the EXIF tags                                             *)
(***************************************************************************)
\* C15: a metadata string encoded by generate_exif_bytes and read back from the
\* UserComment value by the marker-aware decoder (header cut off, UTF-16LE)
\* comes back as the string without its NUL characters, stripped.
C15_UserCommentRoundTrip ==
    fn_pc = "decoded" => fn_out[2] = Strip(SelectSeq(fn_in, LAMBDA c : c # 0))


(***************************************************************************)
(* Properties of one conversion task                                       *)
(***************************************************************************)
\* C16: a failure of the EXIF encoder does not fail its task: when the encoder
\* raises for a task with a text, and the directory is made and the picture
\* opened and saved, the destination file is written without tags and the row
\* of the task says success.
C16_EncoderFailureNotFatal ==
    (/\ fn_pc \in {"converted", "returned"}
     /\ fn_in.encoder_raises
     /\ fn_in.output_dir_type \in {1, 2}
     /\ fn_out.io = "written") =>
        /\ fn_out.new_file_path # NoPath
        /\ NormPath(fn_out.new_file_path) \in DOMAIN fn_out.files
        /\ fn_out.files[NormPath(fn_out.new_file_path)] = NoExif
        /\ fn_pc = "returned" => fn_out.row.success = TRUE

\* A task with a text whose encoder raised has returned its row.
C16_Witness ==
    /\ fn_pc = "returned"
    /\ fn_in.encoder_raises
    /\ fn_in.raw_metadata # << >>
    /\ fn_out.io = "written"
    /\ fn_out.row.success = TRUE
    /\ fn_out.row.dst = fn_out.new_file_path


\* The name of the destination file: the name of the source file with the
\* output format in the place of its extension.
C17_NewName ==
    LET name == BaseName(fn_in.png_path)
    IN  SubSeq(name, 1, Len(name) - Len(EXT_PNG)) \o DOT \o OutputFormat(fn_in.choice)

C17_WitnessOtherMode ==
    /\ fn_pc = "returned"
    /\ fn_in.output_dir_type \notin {1, 2}
    /\ fn_out.row.success = FALSE


(***************************************************************************)
(* Properties of discovery and of the files of a run                       *)
(***************************************************************************)
\* The files of the tree discovery is to return: the name ends in '.png', in
\* any case of the letters, and no directory on the way from the root is
\* named '.bf'.
C18_ToDiscover ==
    {i \in tree :
        LET p == FileUniverse[i]
            name == p[Len(p)]
        IN  /\ Len(name) >= Len(EXT_PNG)
            /\ Lower(SubSeq(name, Len(name) - Len(EXT_PNG) + 1, Len(name))) = EXT_PNG
            /\ \A k \in 1..(Len(p) - 1) : p[k] # BF}

\* C18: discovery returns, once each, exactly the files whose name ends in the
\* source extension and that lie under no directory named '.bf', at any depth;
\* no file under such a directory gets a task or a row.
C18_DiscoveryExcludesBf ==
    /\ main_pc \in {"start", "returned", "done"} =>
           /\ Len(GetPngFiles(tree)) = Cardinality(C18_ToDiscover)
           /\ {GetPngFiles(tree)[k] : k \in 1..Len(GetPngFiles(tree))}
                  = {RootFolder \o FileUniverse[i] : i \in C18_ToDiscover}
    /\ main_pc \notin {"start", "returned"} =>
           {tasks_data[k].png_path : k \in 1..N}
               = {RootFolder \o FileUniverse[i] : i \in C18_ToDiscover}
    /\ \A k \in 1..RowCount :
           \E i \in C18_ToDiscover : conversion_results[k].src = RootFolder \o FileUniverse[i]

\* A run over a tree with a picture below a '.bf' directory that is itself
\* below a subdirectory, and with a picture to convert, is over.
C18_Witness ==
    /\ main_pc = "done"
    /\ \E i \in tree : Len(FileUniverse[i]) = 3 /\ FileUniverse[i][2] = BF
    /\ RowCount = 1


\* The paths of the pictures of the source tree, the discovered ones among them.
C19_SourcePaths ==
    {RootFolder \o FileUniverse[i] : i \in {j \in tree : IsPngName(BaseName(FileUniverse[j]))}}

\* C19: the pipeline only reads its sources: at every moment of a run each
\* discovered file is still in the source tree, and no path written to is the
\* path of a picture of the source tree, discovered or not.
C19_SourcesOnlyRead ==
    /\ WrittenPaths \cap C19_SourcePaths = {}
    /\ \A k \in 1..N : \E i \in tree : RootFolder \o FileUniverse[i] = tasks_data[k].png_path

\* A run to WebP under mode 2 is over, with a file written and the report made.
C19_Witness ==
    /\ main_pc = "done"
    /\ choice = 2
    /\ choice_dir = 2
    /\ \E k \in 1..RowCount : NormPath(conversion_results[k].dst) \in DOMAIN fs
    /\ ReportFile(OutputFormat(choice)) \in WrittenPaths


\* C20: when all tasks are recorded, the success count and the failure count
\* add up to the number of discovered files, which is the number of rows; the
\* success count is the number of rows that say success and the failure count
\* the number of rows that do not.
C20_TotalsMatchLedger ==
    main_pc \in {"summary", "done"} =>
        /\ success_count + failure_count = Len(GetPngFiles(tree))
        /\ RowCount = Len(GetPngFiles(tree))
        /\ success_count = Cardinality({k \in 1..RowCount : conversion_results[k].success})
        /\ failure_count = Cardinality({k \in 1..RowCount : ~conversion_results[k].success})

\* A run is over in which one task succeeded and another raised.
C20_Witness ==
    /\ main_pc = "done"
    /\ success_count >= 1
    /\ \E i \in 1..N : task_pc[i] = "raised"


(***************************************************************************)
(* Properties of the decoder cascade                                       *)
(***************************************************************************)
\* s is a str: a sequence of code points.
C21_IsStr(s) == \A k \in 1..Len(s) : s[k] \in 0..1114111

\* C21: for every value of a tag, with the header or without it, empty or
\* ill-formed, decode_exif_bytes returns one candidate text for each of
\* UTF-16LE, UTF-8, Latin-1 and GBK, and the empty value gives the empty text
\* for each; extract_sd_params_from_user_comment returns its two texts.
C21_CascadeTotal ==
    /\ fn_pc = "candidates" =>
           /\ DOMAIN fn_out =
                  {IF StartsWith(fn_in, UNICODE_PREFIX) THEN "EXIF_STANDARD (UTF-16LE)"
                                                        ELSE "UTF-16LE (Generic)",
                   "UTF-8", "Latin-1", "GBK (Chinese)"}
           /\ \A key \in DOMAIN fn_out : C21_IsStr(fn_out[key])
           /\ fn_in = << >> => \A key \in DOMAIN fn_out : fn_out[key] = << >>
    /\ fn_pc = "extracted" => C21_IsStr(fn_out[1]) /\ C21_IsStr(fn_out[2])

\* The candidates of a value without header that is ill-formed as UTF-16LE, as
\* UTF-8 and as GBK have been returned.
C21_Witness ==
    /\ fn_pc = "candidates"
    /\ ~StartsWith(fn_in, UNICODE_PREFIX)
    /\ \A key \in {"UTF-16LE (Generic)", "UTF-8", "GBK (Chinese)"} :
           \E k \in 1..Len(fn_out[key]) : fn_out[key][k] = 65533

\* The candidates of the empty value have been returned.
C21_WitnessEmpty == fn_pc = "candidates" /\ fn_in = << >>

\* The candidates of a value with the header have been returned.
C21_WitnessHeader == fn_pc = "candidates" /\ StartsWith(fn_in, UNICODE_PREFIX) /\ Len(fn_in) > 8


(***************************************************************************)
(* Properties of the picture written                                       *)
(***************************************************************************)
\* C22: the picture handed to the JPG write is in mode RGB; a source with an
\* alpha channel, whatever its mode, has been laid on an opaque white
\* background (a transparent pixel is white, an opaque one keeps its colour),
\* and every other source has its own colours in RGB.
C22_AlphaFlattenedOnWhite ==
    fn_pc = "jpeg" =>
        LET colour == IF fn_in.mode \in {"L", "LA"}
                      THEN << fn_in.px[1], fn_in.px[1], fn_in.px[1] >>
                      ELSE SubSeq(fn_in.px, 1, 3)
            alpha == fn_in.px[Len(fn_in.px)]
        IN  /\ fn_out.mode = "RGB"
            /\ fn_in.mode \in {"LA", "RGBA"} =>
                   fn_out.px = IF alpha = 0 THEN WHITE ELSE colour
            /\ fn_in.mode \notin {"LA", "RGBA"} => fn_out.px = colour


C24_ReadBackEqualIsConsistent ==
    \A i \in 1..N :
        (/\ task_pc[i] = "returned"
         /\ new_file_path[i] # NoPath
         /\ IsValidSdInfo(tasks_data[i].raw_metadata)
         /\ RawMetadataString(scan_exif[i]) = tasks_data[i].raw_metadata) =>
            result[i].consistent = YES


=============================================================================
